---- MODULE Spec2Model ----
(***************************************************************************)
(* A model of the agenium client SDK: the name/URI validator and the       *)
(* Session record (core/types.py), the directory resolver with its TTL     *)
(* cache (dns/resolver.py), the tool registry (tools/registry.py) and the  *)
(* Agent with its session store (agent.py).                                *)
(*                                                                         *)
(* Strings whose characters matter (agent names, URIs) are sequences of    *)
(* Unicode code points; opaque strings (endpoints, keys, messages) are     *)
(* TLA+ strings.                                                           *)
(***************************************************************************)
EXTENDS Integers, Sequences, FiniteSets, TLC

VARIABLES
    cache,      \* DNSResolver._cache: canonical name -> _CacheEntry
    now,        \* the clock read by time.time()
    ticks,      \* how many times the clock has advanced (bounds the run)
    sent,       \* number of GET /dns/lookup requests issued so far
    calls,      \* the resolve() coroutines: caller -> position and outcome
    tools,      \* ToolRegistry._tools: tool name -> (definition, handler)
    invs,       \* the invoke() coroutines: invoker -> position and outcome
    ret,        \* what the latest register() or unregister() returned
    self_name,  \* Agent._name
    is_running, \* Agent._is_running
    heap,       \* the Session objects created so far, in order of creation
    sessions,   \* Agent._sessions: key -> the Session object (its index in heap)
    dns_api_key,\* Agent._dns_api_key: <<>> for None, else <<key>>
    conns,      \* the connect() coroutines: caller -> position and result
    regs,       \* the Agent.register() coroutine: position and result
    aret,       \* the latest start/stop/send/call_tool call and how it ended
    probe,      \* a string handed to the validator, and the answer
    frame,      \* a value handed to validate_frame, and the answer
    cleared,    \* the callers whose request was on the wire when the cache
                \* was last cleared, until they call resolve() again
    rebound     \* the invokers suspended in a handler whose name has been
                \* registered again or unregistered since the lookup, until
                \* they call invoke() again

vars == <<cache, now, ticks, sent, calls, tools, invs, ret,
          self_name, is_running, heap, sessions, dns_api_key, conns, regs, aret, probe,
          frame, cleared, rebound>>
dnsVars == <<cache, now, ticks, sent, calls, cleared>>
regVars == <<tools, invs, ret, rebound>>
agentVars == <<self_name, is_running, heap, sessions, dns_api_key, conns, regs, aret>>
notDns == <<regVars, agentVars, probe, frame>>
notReg == <<dnsVars, agentVars, probe, frame>>
notAgent == <<regVars, probe, frame>>

----------------------------------------------------------------------------
(* Bounds of the model.                                                    *)

\* the clock advances at most this many times in a run
MaxTicks == 3
\* at most this many directory-service requests are issued in a run
MaxRequests == 3

----------------------------------------------------------------------------
(* Strings as sequences of code points.                                    *)

\* "agent://"
AgentPrefix == <<97, 103, 101, 110, 116, 58, 47, 47>>

\* the value Python's None, where a string is expected
None == <<-1>>

\* str.startswith
StartsWith(s, p) == Len(s) >= Len(p) /\ SubSeq(s, 1, Len(p)) = p

\* str.endswith
EndsWith(s, p) == Len(s) >= Len(p) /\ SubSeq(s, Len(s) - Len(p) + 1, Len(s)) = p

\* str.lower() follows the Unicode character database of the interpreter
\* (Unicode 14.0).  LowerRuns lists the code points with a lowercase mapping
\* of one character, as runs <<lo, hi, step, delta>>: every step-th code
\* point from lo to hi lowers to itself plus delta.
LowerRuns ==
    <<
       <<65, 90, 1, 32>>, <<192, 214, 1, 32>>, <<216, 222, 1, 32>>, <<256, 302, 2, 1>>,
       <<306, 310, 2, 1>>, <<313, 327, 2, 1>>, <<330, 374, 2, 1>>, <<376, 376, 1, -121>>,
       <<377, 381, 2, 1>>, <<385, 385, 1, 210>>, <<386, 388, 2, 1>>, <<390, 390, 1, 206>>,
       <<391, 391, 1, 1>>, <<393, 394, 1, 205>>, <<395, 395, 1, 1>>, <<398, 398, 1, 79>>,
       <<399, 399, 1, 202>>, <<400, 400, 1, 203>>, <<401, 401, 1, 1>>, <<403, 403, 1, 205>>,
       <<404, 404, 1, 207>>, <<406, 406, 1, 211>>, <<407, 407, 1, 209>>, <<408, 408, 1, 1>>,
       <<412, 412, 1, 211>>, <<413, 413, 1, 213>>, <<415, 415, 1, 214>>, <<416, 420, 2, 1>>,
       <<422, 422, 1, 218>>, <<423, 423, 1, 1>>, <<425, 425, 1, 218>>, <<428, 428, 1, 1>>,
       <<430, 430, 1, 218>>, <<431, 431, 1, 1>>, <<433, 434, 1, 217>>, <<435, 437, 2, 1>>,
       <<439, 439, 1, 219>>, <<440, 440, 1, 1>>, <<444, 444, 1, 1>>, <<452, 452, 1, 2>>,
       <<453, 453, 1, 1>>, <<455, 455, 1, 2>>, <<456, 456, 1, 1>>, <<458, 458, 1, 2>>,
       <<459, 475, 2, 1>>, <<478, 494, 2, 1>>, <<497, 497, 1, 2>>, <<498, 500, 2, 1>>,
       <<502, 502, 1, -97>>, <<503, 503, 1, -56>>, <<504, 542, 2, 1>>, <<544, 544, 1, -130>>,
       <<546, 562, 2, 1>>, <<570, 570, 1, 10795>>, <<571, 571, 1, 1>>, <<573, 573, 1, -163>>,
       <<574, 574, 1, 10792>>, <<577, 577, 1, 1>>, <<579, 579, 1, -195>>, <<580, 580, 1, 69>>,
       <<581, 581, 1, 71>>, <<582, 590, 2, 1>>, <<880, 882, 2, 1>>, <<886, 886, 1, 1>>,
       <<895, 895, 1, 116>>, <<902, 902, 1, 38>>, <<904, 906, 1, 37>>, <<908, 908, 1, 64>>,
       <<910, 911, 1, 63>>, <<913, 929, 1, 32>>, <<931, 939, 1, 32>>, <<975, 975, 1, 8>>,
       <<984, 1006, 2, 1>>, <<1012, 1012, 1, -60>>, <<1015, 1015, 1, 1>>, <<1017, 1017, 1, -7>>,
       <<1018, 1018, 1, 1>>, <<1021, 1023, 1, -130>>, <<1024, 1039, 1, 80>>, <<1040, 1071, 1, 32>>,
       <<1120, 1152, 2, 1>>, <<1162, 1214, 2, 1>>, <<1216, 1216, 1, 15>>, <<1217, 1229, 2, 1>>,
       <<1232, 1326, 2, 1>>, <<1329, 1366, 1, 48>>, <<4256, 4293, 1, 7264>>, <<4295, 4295, 1, 7264>>,
       <<4301, 4301, 1, 7264>>, <<5024, 5103, 1, 38864>>, <<5104, 5109, 1, 8>>, <<7312, 7354, 1, -3008>>,
       <<7357, 7359, 1, -3008>>, <<7680, 7828, 2, 1>>, <<7838, 7838, 1, -7615>>, <<7840, 7934, 2, 1>>,
       <<7944, 7951, 1, -8>>, <<7960, 7965, 1, -8>>, <<7976, 7983, 1, -8>>, <<7992, 7999, 1, -8>>,
       <<8008, 8013, 1, -8>>, <<8025, 8031, 2, -8>>, <<8040, 8047, 1, -8>>, <<8072, 8079, 1, -8>>,
       <<8088, 8095, 1, -8>>, <<8104, 8111, 1, -8>>, <<8120, 8121, 1, -8>>, <<8122, 8123, 1, -74>>,
       <<8124, 8124, 1, -9>>, <<8136, 8139, 1, -86>>, <<8140, 8140, 1, -9>>, <<8152, 8153, 1, -8>>,
       <<8154, 8155, 1, -100>>, <<8168, 8169, 1, -8>>, <<8170, 8171, 1, -112>>, <<8172, 8172, 1, -7>>,
       <<8184, 8185, 1, -128>>, <<8186, 8187, 1, -126>>, <<8188, 8188, 1, -9>>, <<8486, 8486, 1, -7517>>,
       <<8490, 8490, 1, -8383>>, <<8491, 8491, 1, -8262>>, <<8498, 8498, 1, 28>>, <<8544, 8559, 1, 16>>,
       <<8579, 8579, 1, 1>>, <<9398, 9423, 1, 26>>, <<11264, 11311, 1, 48>>, <<11360, 11360, 1, 1>>,
       <<11362, 11362, 1, -10743>>, <<11363, 11363, 1, -3814>>, <<11364, 11364, 1, -10727>>, <<11367, 11371, 2, 1>>,
       <<11373, 11373, 1, -10780>>, <<11374, 11374, 1, -10749>>, <<11375, 11375, 1, -10783>>, <<11376, 11376, 1, -10782>>,
       <<11378, 11378, 1, 1>>, <<11381, 11381, 1, 1>>, <<11390, 11391, 1, -10815>>, <<11392, 11490, 2, 1>>,
       <<11499, 11501, 2, 1>>, <<11506, 11506, 1, 1>>, <<42560, 42604, 2, 1>>, <<42624, 42650, 2, 1>>,
       <<42786, 42798, 2, 1>>, <<42802, 42862, 2, 1>>, <<42873, 42875, 2, 1>>, <<42877, 42877, 1, -35332>>,
       <<42878, 42886, 2, 1>>, <<42891, 42891, 1, 1>>, <<42893, 42893, 1, -42280>>, <<42896, 42898, 2, 1>>,
       <<42902, 42920, 2, 1>>, <<42922, 42922, 1, -42308>>, <<42923, 42923, 1, -42319>>, <<42924, 42924, 1, -42315>>,
       <<42925, 42925, 1, -42305>>, <<42926, 42926, 1, -42308>>, <<42928, 42928, 1, -42258>>, <<42929, 42929, 1, -42282>>,
       <<42930, 42930, 1, -42261>>, <<42931, 42931, 1, 928>>, <<42932, 42946, 2, 1>>, <<42948, 42948, 1, -48>>,
       <<42949, 42949, 1, -42307>>, <<42950, 42950, 1, -35384>>, <<42951, 42953, 2, 1>>, <<42960, 42960, 1, 1>>,
       <<42966, 42968, 2, 1>>, <<42997, 42997, 1, 1>>, <<65313, 65338, 1, 32>>, <<66560, 66599, 1, 40>>,
       <<66736, 66771, 1, 40>>, <<66928, 66938, 1, 39>>, <<66940, 66954, 1, 39>>, <<66956, 66962, 1, 39>>,
       <<66964, 66965, 1, 39>>, <<68736, 68786, 1, 64>>, <<71840, 71871, 1, 32>>, <<93760, 93791, 1, 32>>,
       <<125184, 125217, 1, 34>>
    >>

\* the code points str.lower() skips on either side of a capital sigma
\* (case-ignorable), as ranges <<lo, hi>>
CaseIgnorableRanges ==
    <<
       <<39, 39>>, <<46, 46>>, <<58, 58>>, <<94, 94>>, <<96, 96>>,
       <<168, 168>>, <<173, 173>>, <<175, 175>>, <<180, 180>>, <<183, 184>>,
       <<688, 879>>, <<884, 885>>, <<890, 890>>, <<900, 901>>, <<903, 903>>,
       <<1155, 1161>>, <<1369, 1369>>, <<1375, 1375>>, <<1425, 1469>>, <<1471, 1471>>,
       <<1473, 1474>>, <<1476, 1477>>, <<1479, 1479>>, <<1524, 1524>>, <<1536, 1541>>,
       <<1552, 1562>>, <<1564, 1564>>, <<1600, 1600>>, <<1611, 1631>>, <<1648, 1648>>,
       <<1750, 1757>>, <<1759, 1768>>, <<1770, 1773>>, <<1807, 1807>>, <<1809, 1809>>,
       <<1840, 1866>>, <<1958, 1968>>, <<2027, 2037>>, <<2042, 2042>>, <<2045, 2045>>,
       <<2070, 2093>>, <<2137, 2139>>, <<2184, 2184>>, <<2192, 2193>>, <<2200, 2207>>,
       <<2249, 2306>>, <<2362, 2362>>, <<2364, 2364>>, <<2369, 2376>>, <<2381, 2381>>,
       <<2385, 2391>>, <<2402, 2403>>, <<2417, 2417>>, <<2433, 2433>>, <<2492, 2492>>,
       <<2497, 2500>>, <<2509, 2509>>, <<2530, 2531>>, <<2558, 2558>>, <<2561, 2562>>,
       <<2620, 2620>>, <<2625, 2626>>, <<2631, 2632>>, <<2635, 2637>>, <<2641, 2641>>,
       <<2672, 2673>>, <<2677, 2677>>, <<2689, 2690>>, <<2748, 2748>>, <<2753, 2757>>,
       <<2759, 2760>>, <<2765, 2765>>, <<2786, 2787>>, <<2810, 2815>>, <<2817, 2817>>,
       <<2876, 2876>>, <<2879, 2879>>, <<2881, 2884>>, <<2893, 2893>>, <<2901, 2902>>,
       <<2914, 2915>>, <<2946, 2946>>, <<3008, 3008>>, <<3021, 3021>>, <<3072, 3072>>,
       <<3076, 3076>>, <<3132, 3132>>, <<3134, 3136>>, <<3142, 3144>>, <<3146, 3149>>,
       <<3157, 3158>>, <<3170, 3171>>, <<3201, 3201>>, <<3260, 3260>>, <<3263, 3263>>,
       <<3270, 3270>>, <<3276, 3277>>, <<3298, 3299>>, <<3328, 3329>>, <<3387, 3388>>,
       <<3393, 3396>>, <<3405, 3405>>, <<3426, 3427>>, <<3457, 3457>>, <<3530, 3530>>,
       <<3538, 3540>>, <<3542, 3542>>, <<3633, 3633>>, <<3636, 3642>>, <<3654, 3662>>,
       <<3761, 3761>>, <<3764, 3772>>, <<3782, 3782>>, <<3784, 3789>>, <<3864, 3865>>,
       <<3893, 3893>>, <<3895, 3895>>, <<3897, 3897>>, <<3953, 3966>>, <<3968, 3972>>,
       <<3974, 3975>>, <<3981, 3991>>, <<3993, 4028>>, <<4038, 4038>>, <<4141, 4144>>,
       <<4146, 4151>>, <<4153, 4154>>, <<4157, 4158>>, <<4184, 4185>>, <<4190, 4192>>,
       <<4209, 4212>>, <<4226, 4226>>, <<4229, 4230>>, <<4237, 4237>>, <<4253, 4253>>,
       <<4348, 4348>>, <<4957, 4959>>, <<5906, 5908>>, <<5938, 5939>>, <<5970, 5971>>,
       <<6002, 6003>>, <<6068, 6069>>, <<6071, 6077>>, <<6086, 6086>>, <<6089, 6099>>,
       <<6103, 6103>>, <<6109, 6109>>, <<6155, 6159>>, <<6211, 6211>>, <<6277, 6278>>,
       <<6313, 6313>>, <<6432, 6434>>, <<6439, 6440>>, <<6450, 6450>>, <<6457, 6459>>,
       <<6679, 6680>>, <<6683, 6683>>, <<6742, 6742>>, <<6744, 6750>>, <<6752, 6752>>,
       <<6754, 6754>>, <<6757, 6764>>, <<6771, 6780>>, <<6783, 6783>>, <<6823, 6823>>,
       <<6832, 6862>>, <<6912, 6915>>, <<6964, 6964>>, <<6966, 6970>>, <<6972, 6972>>,
       <<6978, 6978>>, <<7019, 7027>>, <<7040, 7041>>, <<7074, 7077>>, <<7080, 7081>>,
       <<7083, 7085>>, <<7142, 7142>>, <<7144, 7145>>, <<7149, 7149>>, <<7151, 7153>>,
       <<7212, 7219>>, <<7222, 7223>>, <<7288, 7293>>, <<7376, 7378>>, <<7380, 7392>>,
       <<7394, 7400>>, <<7405, 7405>>, <<7412, 7412>>, <<7416, 7417>>, <<7468, 7530>>,
       <<7544, 7544>>, <<7579, 7679>>, <<8125, 8125>>, <<8127, 8129>>, <<8141, 8143>>,
       <<8157, 8159>>, <<8173, 8175>>, <<8189, 8190>>, <<8203, 8207>>, <<8216, 8217>>,
       <<8228, 8228>>, <<8231, 8231>>, <<8234, 8238>>, <<8288, 8292>>, <<8294, 8303>>,
       <<8305, 8305>>, <<8319, 8319>>, <<8336, 8348>>, <<8400, 8432>>, <<11388, 11389>>,
       <<11503, 11505>>, <<11631, 11631>>, <<11647, 11647>>, <<11744, 11775>>, <<11823, 11823>>,
       <<12293, 12293>>, <<12330, 12333>>, <<12337, 12341>>, <<12347, 12347>>, <<12441, 12446>>,
       <<12540, 12542>>, <<40981, 40981>>, <<42232, 42237>>, <<42508, 42508>>, <<42607, 42610>>,
       <<42612, 42621>>, <<42623, 42623>>, <<42652, 42655>>, <<42736, 42737>>, <<42752, 42785>>,
       <<42864, 42864>>, <<42888, 42890>>, <<42994, 42996>>, <<43000, 43001>>, <<43010, 43010>>,
       <<43014, 43014>>, <<43019, 43019>>, <<43045, 43046>>, <<43052, 43052>>, <<43204, 43205>>,
       <<43232, 43249>>, <<43263, 43263>>, <<43302, 43309>>, <<43335, 43345>>, <<43392, 43394>>,
       <<43443, 43443>>, <<43446, 43449>>, <<43452, 43453>>, <<43471, 43471>>, <<43493, 43494>>,
       <<43561, 43566>>, <<43569, 43570>>, <<43573, 43574>>, <<43587, 43587>>, <<43596, 43596>>,
       <<43632, 43632>>, <<43644, 43644>>, <<43696, 43696>>, <<43698, 43700>>, <<43703, 43704>>,
       <<43710, 43711>>, <<43713, 43713>>, <<43741, 43741>>, <<43756, 43757>>, <<43763, 43764>>,
       <<43766, 43766>>, <<43867, 43871>>, <<43881, 43883>>, <<44005, 44005>>, <<44008, 44008>>,
       <<44013, 44013>>, <<64286, 64286>>, <<64434, 64450>>, <<65024, 65039>>, <<65043, 65043>>,
       <<65056, 65071>>, <<65106, 65106>>, <<65109, 65109>>, <<65279, 65279>>, <<65287, 65287>>,
       <<65294, 65294>>, <<65306, 65306>>, <<65342, 65342>>, <<65344, 65344>>, <<65392, 65392>>,
       <<65438, 65439>>, <<65507, 65507>>, <<65529, 65531>>, <<66045, 66045>>, <<66272, 66272>>,
       <<66422, 66426>>, <<67456, 67461>>, <<67463, 67504>>, <<67506, 67514>>, <<68097, 68099>>,
       <<68101, 68102>>, <<68108, 68111>>, <<68152, 68154>>, <<68159, 68159>>, <<68325, 68326>>,
       <<68900, 68903>>, <<69291, 69292>>, <<69446, 69456>>, <<69506, 69509>>, <<69633, 69633>>,
       <<69688, 69702>>, <<69744, 69744>>, <<69747, 69748>>, <<69759, 69761>>, <<69811, 69814>>,
       <<69817, 69818>>, <<69821, 69821>>, <<69826, 69826>>, <<69837, 69837>>, <<69888, 69890>>,
       <<69927, 69931>>, <<69933, 69940>>, <<70003, 70003>>, <<70016, 70017>>, <<70070, 70078>>,
       <<70089, 70092>>, <<70095, 70095>>, <<70191, 70193>>, <<70196, 70196>>, <<70198, 70199>>,
       <<70206, 70206>>, <<70367, 70367>>, <<70371, 70378>>, <<70400, 70401>>, <<70459, 70460>>,
       <<70464, 70464>>, <<70502, 70508>>, <<70512, 70516>>, <<70712, 70719>>, <<70722, 70724>>,
       <<70726, 70726>>, <<70750, 70750>>, <<70835, 70840>>, <<70842, 70842>>, <<70847, 70848>>,
       <<70850, 70851>>, <<71090, 71093>>, <<71100, 71101>>, <<71103, 71104>>, <<71132, 71133>>,
       <<71219, 71226>>, <<71229, 71229>>, <<71231, 71232>>, <<71339, 71339>>, <<71341, 71341>>,
       <<71344, 71349>>, <<71351, 71351>>, <<71453, 71455>>, <<71458, 71461>>, <<71463, 71467>>,
       <<71727, 71735>>, <<71737, 71738>>, <<71995, 71996>>, <<71998, 71998>>, <<72003, 72003>>,
       <<72148, 72151>>, <<72154, 72155>>, <<72160, 72160>>, <<72193, 72202>>, <<72243, 72248>>,
       <<72251, 72254>>, <<72263, 72263>>, <<72273, 72278>>, <<72281, 72283>>, <<72330, 72342>>,
       <<72344, 72345>>, <<72752, 72758>>, <<72760, 72765>>, <<72767, 72767>>, <<72850, 72871>>,
       <<72874, 72880>>, <<72882, 72883>>, <<72885, 72886>>, <<73009, 73014>>, <<73018, 73018>>,
       <<73020, 73021>>, <<73023, 73029>>, <<73031, 73031>>, <<73104, 73105>>, <<73109, 73109>>,
       <<73111, 73111>>, <<73459, 73460>>, <<78896, 78904>>, <<92912, 92916>>, <<92976, 92982>>,
       <<92992, 92995>>, <<94031, 94031>>, <<94095, 94111>>, <<94176, 94177>>, <<94179, 94180>>,
       <<110576, 110579>>, <<110581, 110587>>, <<110589, 110590>>, <<113821, 113822>>, <<113824, 113827>>,
       <<118528, 118573>>, <<118576, 118598>>, <<119143, 119145>>, <<119155, 119170>>, <<119173, 119179>>,
       <<119210, 119213>>, <<119362, 119364>>, <<121344, 121398>>, <<121403, 121452>>, <<121461, 121461>>,
       <<121476, 121476>>, <<121499, 121503>>, <<121505, 121519>>, <<122880, 122886>>, <<122888, 122904>>,
       <<122907, 122913>>, <<122915, 122916>>, <<122918, 122922>>, <<123184, 123197>>, <<123566, 123566>>,
       <<123628, 123631>>, <<125136, 125142>>, <<125252, 125259>>, <<127995, 127999>>, <<917505, 917505>>,
       <<917536, 917631>>, <<917760, 917999>>
    >>

\* the cased code points that are not case-ignorable, as ranges <<lo, hi>>
CasedRanges ==
    <<
       <<65, 90>>, <<97, 122>>, <<170, 170>>, <<181, 181>>, <<186, 186>>,
       <<192, 214>>, <<216, 246>>, <<248, 442>>, <<444, 447>>, <<452, 659>>,
       <<661, 687>>, <<880, 883>>, <<886, 887>>, <<891, 893>>, <<895, 895>>,
       <<902, 902>>, <<904, 906>>, <<908, 908>>, <<910, 929>>, <<931, 1013>>,
       <<1015, 1153>>, <<1162, 1327>>, <<1329, 1366>>, <<1376, 1416>>, <<4256, 4293>>,
       <<4295, 4295>>, <<4301, 4301>>, <<4304, 4346>>, <<4349, 4351>>, <<5024, 5109>>,
       <<5112, 5117>>, <<7296, 7304>>, <<7312, 7354>>, <<7357, 7359>>, <<7424, 7467>>,
       <<7531, 7543>>, <<7545, 7578>>, <<7680, 7957>>, <<7960, 7965>>, <<7968, 8005>>,
       <<8008, 8013>>, <<8016, 8023>>, <<8025, 8025>>, <<8027, 8027>>, <<8029, 8029>>,
       <<8031, 8061>>, <<8064, 8116>>, <<8118, 8124>>, <<8126, 8126>>, <<8130, 8132>>,
       <<8134, 8140>>, <<8144, 8147>>, <<8150, 8155>>, <<8160, 8172>>, <<8178, 8180>>,
       <<8182, 8188>>, <<8450, 8450>>, <<8455, 8455>>, <<8458, 8467>>, <<8469, 8469>>,
       <<8473, 8477>>, <<8484, 8484>>, <<8486, 8486>>, <<8488, 8488>>, <<8490, 8493>>,
       <<8495, 8500>>, <<8505, 8505>>, <<8508, 8511>>, <<8517, 8521>>, <<8526, 8526>>,
       <<8544, 8575>>, <<8579, 8580>>, <<9398, 9449>>, <<11264, 11387>>, <<11390, 11492>>,
       <<11499, 11502>>, <<11506, 11507>>, <<11520, 11557>>, <<11559, 11559>>, <<11565, 11565>>,
       <<42560, 42605>>, <<42624, 42651>>, <<42786, 42863>>, <<42865, 42887>>, <<42891, 42894>>,
       <<42896, 42954>>, <<42960, 42961>>, <<42963, 42963>>, <<42965, 42969>>, <<42997, 42998>>,
       <<43002, 43002>>, <<43824, 43866>>, <<43872, 43880>>, <<43888, 43967>>, <<64256, 64262>>,
       <<64275, 64279>>, <<65313, 65338>>, <<65345, 65370>>, <<66560, 66639>>, <<66736, 66771>>,
       <<66776, 66811>>, <<66928, 66938>>, <<66940, 66954>>, <<66956, 66962>>, <<66964, 66965>>,
       <<66967, 66977>>, <<66979, 66993>>, <<66995, 67001>>, <<67003, 67004>>, <<68736, 68786>>,
       <<68800, 68850>>, <<71840, 71903>>, <<93760, 93823>>, <<119808, 119892>>, <<119894, 119964>>,
       <<119966, 119967>>, <<119970, 119970>>, <<119973, 119974>>, <<119977, 119980>>, <<119982, 119993>>,
       <<119995, 119995>>, <<119997, 120003>>, <<120005, 120069>>, <<120071, 120074>>, <<120077, 120084>>,
       <<120086, 120092>>, <<120094, 120121>>, <<120123, 120126>>, <<120128, 120132>>, <<120134, 120134>>,
       <<120138, 120144>>, <<120146, 120485>>, <<120488, 120512>>, <<120514, 120538>>, <<120540, 120570>>,
       <<120572, 120596>>, <<120598, 120628>>, <<120630, 120654>>, <<120656, 120686>>, <<120688, 120712>>,
       <<120714, 120744>>, <<120746, 120770>>, <<120772, 120779>>, <<122624, 122633>>, <<122635, 122654>>,
       <<125184, 125251>>, <<127280, 127305>>, <<127312, 127337>>, <<127344, 127369>>
    >>

\* str.lower on one character that is not a capital sigma: the small letter
\* of a cased character (the code point is in a run of LowerRuns), the
\* character itself otherwise; U+0130 lowers to the two code points
\* U+0069 U+0307.
LowerChar(c) ==
    LET InRun(r) == /\ c >= LowerRuns[r][1] /\ c <= LowerRuns[r][2]
                    /\ (c - LowerRuns[r][1]) % LowerRuns[r][3] = 0
    IN  IF c < 128 THEN (IF c >= 65 /\ c <= 90 THEN <<c + 32>> ELSE <<c>>)
        ELSE IF c = 304 THEN <<105, 775>>
        ELSE IF \E r \in DOMAIN LowerRuns : InRun(r)
        THEN <<c + LowerRuns[CHOOSE r \in DOMAIN LowerRuns : InRun(r)][4]>>
        ELSE <<c>>

\* The capital sigma at position i ends a word: going back over
\* case-ignorable characters there is a cased one, and going on over
\* case-ignorable characters there is none.
FinalSigma(s, i) ==
    LET Cased(c) == \E r \in DOMAIN CasedRanges :
                        c >= CasedRanges[r][1] /\ c <= CasedRanges[r][2]
        CaseIgnorable(c) ==
            \E r \in DOMAIN CaseIgnorableRanges :
                c >= CaseIgnorableRanges[r][1] /\ c <= CaseIgnorableRanges[r][2]
    IN  /\ \E j \in 1..(i - 1) :
              /\ Cased(s[j]) /\ ~CaseIgnorable(s[j])
              /\ \A k \in (j + 1)..(i - 1) : CaseIgnorable(s[k])
        /\ ~\E j \in (i + 1)..Len(s) :
              /\ Cased(s[j]) /\ ~CaseIgnorable(s[j])
              /\ \A k \in (i + 1)..(j - 1) : CaseIgnorable(s[k])

\* str.lower from position i on: U+03A3 lowers to U+03C2 at the end of a
\* word and to U+03C3 elsewhere
RECURSIVE LowerFrom(_, _)
LowerFrom(s, i) ==
    IF i > Len(s) THEN <<>>
    ELSE (IF s[i] = 931
          THEN (IF FinalSigma(s, i) THEN <<962>> ELSE <<963>>)
          ELSE LowerChar(s[i])) \o LowerFrom(s, i + 1)

\* str.lower
Lower(s) == LowerFrom(s, 1)

\* the character class [a-z0-9 U+0080-U+FFFF] of the pattern
NameChar(c) ==
    \/ c >= 97 /\ c <= 122
    \/ c >= 48 /\ c <= 57
    \/ c >= 128 /\ c <= 65535

\* the pattern between ^ and $
MatchBody(s) ==
    /\ Len(s) >= 1
    /\ NameChar(s[1])
    /\ Len(s) >= 2 =>
        /\ NameChar(s[Len(s)])
        /\ \A i \in 2..(Len(s) - 1) : NameChar(s[i]) \/ s[i] = 45

\* _AGENT_NAME_RE.match: $ matches at the end of the string and also just
\* before a newline that ends the string.
AGENT_NAME_RE(s) ==
    \/ MatchBody(s)
    \/ /\ Len(s) >= 2
       /\ s[Len(s)] = 10
       /\ MatchBody(SubSeq(s, 1, Len(s) - 1))

parse_agent_uri(uri) ==
    IF ~StartsWith(uri, AgentPrefix) THEN None
    ELSE LET name == Lower(SubSeq(uri, 9, Len(uri))) IN
         IF Len(name) < 2 \/ Len(name) > 50 THEN None
         ELSE IF StartsWith(name, <<45>>) \/ EndsWith(name, <<45>>) THEN None
         ELSE IF ~AGENT_NAME_RE(name) THEN None
         ELSE name

is_valid_agent_uri(uri) == parse_agent_uri(uri) # None

validate_agent_name(name) ==
    IF Len(name) < 2 \/ Len(name) > 50 THEN FALSE
    ELSE IF StartsWith(name, <<45>>) \/ EndsWith(name, <<45>>) THEN FALSE
    ELSE AGENT_NAME_RE(Lower(name))

to_agent_uri(name) == AgentPrefix \o Lower(name)

----------------------------------------------------------------------------
(* The directory service, as the resolver sees it.                         *)

default_ttl_seconds == 300

\* the callers that run resolve() concurrently on one event loop
Callers == {"c1", "c2"}

\* the caller of a program that awaits each resolve() before the next
Sequential == {"c1"}

\* the amounts by which the clock advances between two steps
TickSteps == {1, default_ttl_seconds}

\* "ab", "Ab", "agent://Ab", "-a", "agent://a!"
Targets ==
    { <<97, 98>>, <<65, 98>>, AgentPrefix \o <<65, 98>>,
      <<45, 97>>, AgentPrefix \o <<97, 33>> }

\* The keys of a JSON object the resolver looks at, and one it does not.
KnownKeys == {"name", "endpoint", "publicKey", "public_key", "tools", "capabilities", "ttl"}

\* A response body.  json: "object" (a JSON object), "array" (JSON, but no
\* object) or "invalid" (not JSON).  has: the keys present in the object; the
\* other fields hold the value of each key that is present.  A ttl is a
\* number (num) of value v, or not a number.  tools is iterable or not, and
\* each item is a mapping or not.
Body(json, has, endpoint, ttl, toolsv) ==
    [json |-> json, has |-> has, name |-> "zz", endpoint |-> endpoint,
     publicKey |-> "pk", public_key |-> "pk_alt", tools |-> toolsv,
     capabilities |-> <<"chat">>, ttl |-> ttl, region |-> "eu"]

\* A body {"agent": inner}: the object has the one key "agent", whose value is
\* the object inner, or a scalar when inner is no object.
Wrapped(inner) == [json |-> "object", has |-> {"agent"}, agent |-> inner]

Num(v) == [num |-> TRUE, v |-> v]
NotNum == [num |-> FALSE, v |-> 0]
ToolList(items) == [iter |-> TRUE, items |-> items]
NotIterable == [iter |-> FALSE, items |-> <<>>]
\* a schema is an opaque string here, "" standing for a falsy value
ToolItem(n) ==
    [mapping |-> TRUE, has |-> {"name", "input_schema"}, name |-> n, description |-> "",
     inputSchema |-> "", input_schema |-> "s1", outputSchema |-> "", output_schema |-> ""]
NotMapping ==
    [mapping |-> FALSE, has |-> {}, name |-> "", description |-> "",
     inputSchema |-> "", input_schema |-> "", outputSchema |-> "", output_schema |-> ""]

NoBody == Body("invalid", {}, "", Num(0), ToolList(<<>>))

\* What one request can come back with: an HTTP response (status, body), a
\* timeout, a connection failure, or another transport error (the peer
\* closes the connection while the response is read).
Http(status, body) == [kind |-> "http", status |-> status, body |-> body]
Failure(kind) == [kind |-> kind, status |-> 0, body |-> NoBody]

Responses ==
    { Http(200, Body("object", {"name", "endpoint", "publicKey", "tools", "ttl"},
                     "e1", Num(2), ToolList(<<ToolItem("t1")>>))),
      Http(200, Wrapped(Body("object", {"endpoint", "public_key", "region"},
                             "e2", Num(0), ToolList(<<>>)))),
      Http(200, Wrapped(Body("array", {}, "", Num(0), ToolList(<<>>)))),
      Http(200, Body("invalid", {}, "", Num(0), ToolList(<<>>))),
      Http(200, Body("array", {}, "", Num(0), ToolList(<<>>))),
      Http(200, Body("object", {"endpoint", "tools"}, "e1", Num(0), NotIterable)),
      Http(200, Body("object", {"endpoint", "tools"}, "e1", Num(0),
                     ToolList(<<NotMapping>>))),
      Http(200, Body("object", {"endpoint", "ttl"}, "e1", NotNum, ToolList(<<>>))),
      Http(404, NoBody),
      Http(500, NoBody),
      Failure("timeout"),
      Failure("connect"),
      Failure("transport") }

\* dict.get(key, default)
Get(m, key, default) == IF key \in m.has THEN m[key] ELSE default

----------------------------------------------------------------------------
(* DNSResolver.                                                            *)

\* How a call of resolve() ends: it returns an agent, raises DNSError(code),
\* or raises another exception (code is its type).
Ok(agent) == [kind |-> "ok", code |-> "", agent |-> <<agent>>]
DNSError(code) == [kind |-> "DNSError", code |-> code, agent |-> <<>>]
Raised(type) == [kind |-> "raised", code |-> type, agent |-> <<>>]
NoResult == [kind |-> "none", code |-> "", agent |-> <<>>]

DNSErrorCode == {"NOT_FOUND", "INVALID_NAME", "TIMEOUT", "SERVER_ERROR", "NETWORK_ERROR"}

EmptyCache == [k \in {} |-> 0]

\* the name resolve() goes on with: the parsed name for a URI, else the
\* target as it was given
ResolveName(target) ==
    IF StartsWith(target, AgentPrefix) THEN parse_agent_uri(target) ELSE target

\* ResolveValid without the check of a bare name
ResolveValidUriOnly(target) == ResolveName(target) # None

\* neither of the two INVALID_NAME checks fires
ResolveValid(target) ==
    /\ ResolveName(target) # None
    /\ validate_agent_name(ResolveName(target))

\* CacheHit with the comparison turned round
CacheHitInverted(c, name, t) == name \in DOMAIN c /\ c[name].expires_at < t

\* CacheHit without the comparison
CacheHitNoExpiry(c, name, t) == name \in DOMAIN c

\* cached and cached.expires_at > time.time()
CacheHit(c, name, t) == name \in DOMAIN c /\ c[name].expires_at > t

\* self._cache[name] = entry
CachePut(c, name, entry) ==
    [k \in DOMAIN c \cup {name} |-> IF k = name THEN entry ELSE c[k]]

\* The try block around the request: the code of the DNSError it raises, or
\* "" when it leaves data = resp.json().
FetchError(resp) ==
    IF resp.kind = "timeout" THEN "TIMEOUT"
    ELSE IF resp.kind = "connect" THEN "NETWORK_ERROR"
    ELSE IF resp.kind # "http" THEN "SERVER_ERROR"
    ELSE IF resp.status = 404 THEN "NOT_FOUND"
    ELSE IF resp.status # 200 THEN "SERVER_ERROR"
    ELSE IF resp.body.json = "invalid" THEN "SERVER_ERROR"
    ELSE ""

\* agent_data = data.get("agent", data), for data an object
AgentData(data) == IF "agent" \in data.has THEN data.agent ELSE data

\* a or b
OrElse(a, b) == IF a # "" THEN a ELSE b

\* AgentTool(...) for one item of tools_raw
ParseTool(t) ==
    [name |-> Get(t, "name", ""),
     description |-> Get(t, "description", ""),
     input_schema |-> OrElse(Get(t, "inputSchema", ""), Get(t, "input_schema", "")),
     output_schema |-> OrElse(Get(t, "outputSchema", ""), Get(t, "output_schema", ""))]

\* The exception the code after the try block raises while it reads the
\* payload, or "" when it raises none: .get on a value that is no mapping,
\* iteration over a value that is no sequence, time.time() + a ttl that is
\* no number.
ParseError(data) ==
    IF data.json # "object" THEN "AttributeError"
    ELSE IF AgentData(data).json # "object" THEN "AttributeError"
    ELSE LET ad == AgentData(data)
             tools_raw == Get(ad, "tools", ToolList(<<>>))
         IN  IF ~tools_raw.iter THEN "TypeError"
             ELSE IF \E i \in 1..Len(tools_raw.items) : ~tools_raw.items[i].mapping
                  THEN "AttributeError"
             ELSE IF ~Get(ad, "ttl", Num(default_ttl_seconds)).num THEN "TypeError"
             ELSE ""

\* ResolvedAgent(name=name, ...), resolved_at read from the clock at t
BuildAgent(name, ad, t) ==
    [name |-> name,
     endpoint |-> Get(ad, "endpoint", ""),
     public_key |-> Get(ad, "publicKey", Get(ad, "public_key", "")),
     tools |-> [i \in 1..Len(Get(ad, "tools", ToolList(<<>>)).items) |->
                    ParseTool(Get(ad, "tools", ToolList(<<>>)).items[i])],
     capabilities |-> Get(ad, "capabilities", <<>>),
     ttl |-> Get(ad, "ttl", Num(default_ttl_seconds)).v,
     resolved_at |-> t,
     metadata |-> [k \in ad.has \ KnownKeys |-> ad[k]]]

\* _CacheEntry(agent=agent, expires_at=time.time() + agent.ttl), the clock
\* read at t
CacheEntry(agent, t) == [agent |-> agent, expires_at |-> t + agent.ttl]

\* What the call returns or raises once the request has been answered by
\* resp, resolved_at read from the clock at t
ResolveResult(name, resp, t) ==
    IF FetchError(resp) # "" THEN DNSError(FetchError(resp))
    ELSE IF ParseError(resp.body) # "" THEN Raised(ParseError(resp.body))
    ELSE Ok(BuildAgent(name, AgentData(resp.body), t))

\* ResolveCache dropping the entry of a name whose resolution failed
ResolveCacheEvict(c, name, resp, t, t2) ==
    IF ResolveResult(name, resp, t).kind = "ok"
    THEN CachePut(c, name, CacheEntry(ResolveResult(name, resp, t).agent[1], t2))
    ELSE [k \in DOMAIN c \ {name} |-> c[k]]

\* ResolveCache keeping the entry a name already has
ResolveCacheKeepFirst(c, name, resp, t, t2) ==
    IF ResolveResult(name, resp, t).kind = "ok" /\ name \notin DOMAIN c
    THEN CachePut(c, name, CacheEntry(ResolveResult(name, resp, t).agent[1], t2))
    ELSE c

\* The cache the call leaves behind: the entry is written as the last thing
\* before the return, the clock read again at t2
ResolveCache(c, name, resp, t, t2) ==
    IF ResolveResult(name, resp, t).kind = "ok"
    THEN CachePut(c, name, CacheEntry(ResolveResult(name, resp, t).agent[1], t2))
    ELSE c

\* client_get sending the request a second time
client_get_twice(n) == n + 2

\* await client.get(url): one more request is on the wire
client_get(n) == n + 1

\* A resolve() coroutine.  pc: "idle" (never called), "waiting" (at the await
\* of its request) or "done"; target and name of the latest call; its
\* result; hit: it returned from the cache; stale: it found an expired entry;
\* nreq: the requests it issued; via: the kind and status of the answer.
Call(pc, target, name, result, hit, stale, nreq, via) ==
    [pc |-> pc, target |-> target, name |-> name, result |-> result,
     hit |-> hit, stale |-> stale, nreq |-> nreq, via |-> via]

NoAnswer == [kind |-> "none", status |-> 0]

\* 1 if the clock advances by d, else 0
Step(d) == IF d > 0 THEN 1 ELSE 0

\* the clock advances by d and then by e
Advance(d, e) ==
    /\ ticks + Step(d) + Step(e) <= MaxTicks
    /\ now' = now + d + e
    /\ ticks' = ticks + Step(d) + Step(e)

\* resolve(target), up to its return, its raise, or the await of the
\* request: what it does to the resolver
ResolveBeginCalls(c, target) ==
    /\ calls[c].pc # "waiting"
    /\ sent < MaxRequests
    /\ LET name == ResolveName(target) IN
       IF ~ResolveValid(target) THEN
            /\ calls' = [calls EXCEPT ![c] =
                    Call("done", target, name, DNSError("INVALID_NAME"),
                         FALSE, FALSE, 0, NoAnswer)]
            /\ UNCHANGED sent
       ELSE IF CacheHit(cache, name, now) THEN
            /\ calls' = [calls EXCEPT ![c] =
                    Call("done", target, name, Ok(cache[name].agent),
                         TRUE, FALSE, 0, NoAnswer)]
            /\ UNCHANGED sent
       ELSE
            /\ calls' = [calls EXCEPT ![c] =
                    Call("waiting", target, name, NoResult,
                         FALSE, name \in DOMAIN cache, client_get(sent) - sent, NoAnswer)]
            /\ sent' = client_get(sent)
    /\ cleared' = cleared \ {c}
    /\ UNCHANGED cache

\* resolve(target) called on the resolver itself
ResolveBegin(c, target) ==
    /\ ResolveBeginCalls(c, target)
    /\ UNCHANGED <<now, ticks>>
    /\ UNCHANGED notDns

\* resolve() from the answer to its request to its return or raise.  The
\* clock is read for resolved_at and again for expires_at; it advances by d
\* in between.
ResolveCompleteCalls(c, resp, d) ==
    /\ calls[c].pc = "waiting"
    /\ ResolveResult(calls[c].name, resp, now).kind # "ok" => d = 0
    /\ cache' = ResolveCache(cache, calls[c].name, resp, now, now + d)
    /\ calls' = [calls EXCEPT ![c].pc = "done",
                              ![c].result = ResolveResult(calls[c].name, resp, now),
                              ![c].via = [kind |-> resp.kind, status |-> resp.status]]
    /\ UNCHANGED <<sent, cleared>>

\* the rest of a resolve() called on the resolver itself
ResolveComplete(c, resp, d) ==
    /\ ResolveCompleteCalls(c, resp, d)
    /\ Advance(d, 0)
    /\ UNCHANGED notDns

\* clear_cache dropping the entries that have expired only
clear_cache_expired ==
    /\ cache' = [k \in {n \in DOMAIN cache : cache[n].expires_at > now} |-> cache[k]]
    /\ cleared' = {c \in Callers : calls[c].pc = "waiting"}
    /\ UNCHANGED <<now, ticks, sent, calls>>
    /\ UNCHANGED notDns

\* self._cache.clear()
clear_cache ==
    /\ cache' = EmptyCache
    /\ cleared' = {c \in Callers : calls[c].pc = "waiting"}
    /\ UNCHANGED <<now, ticks, sent, calls>>
    /\ UNCHANGED notDns

cache_size == Cardinality(DOMAIN cache)

\* time passes
Tick(d) ==
    /\ ticks < MaxTicks
    /\ now' = now + d
    /\ ticks' = ticks + 1
    /\ UNCHANGED <<cache, sent, calls, cleared>>
    /\ UNCHANGED notDns

----------------------------------------------------------------------------
(* ToolRegistry.                                                           *)

\* the names tools are registered and invoked under
ToolNames == {"t1", "t2"}

\* the coroutines that run invoke() on one event loop
Invokers == {"i1", "i2"}

\* the coroutine of a program that awaits each invoke() before the next
SoleInvoker == {"i1"}

\* The handlers a program registers:
\*   add       async def add(a, b): return a + b
\*   fail      async def fail(): raise ValueError("boom")
\*   bad_type  async def bad_type(): return len(None)
\*   slow      async def slow(): await something; return 1
\*   exit      async def exit(): raise SystemExit
\*   float_op  async def float_op(): raise decimal.FloatOperation("f")
\*             (FloatOperation derives from TypeError)
Handlers == {"add", "fail", "bad_type", "slow", "exit", "float_op"}

\* the parameters a handler declares (none has a default)
HandlerParams(h) == IF h = "add" THEN {"a", "b"} ELSE {}

\* the handler awaits before it finishes
Suspends(h) == h = "slow"

\* A parameter value: an integer, or a string.
IntV(n) == [int |-> TRUE, v |-> n]
StrV == [int |-> FALSE, v |-> 0]

\* {}, {"a": 3, "b": 4}, {"a": 3}, {"a": 3, "b": "x"}
ParamSets ==
    { [k \in {} |-> IntV(0)],
      [k \in {"a", "b"} |-> IF k = "a" THEN IntV(3) ELSE IntV(4)],
      [k \in {"a"} |-> IntV(3)],
      [k \in {"a", "b"} |-> IF k = "a" THEN IntV(3) ELSE StrV] }

\* ToolContext(session_id, agent_name)
Contexts ==
    { [session_id |-> "s1", agent_name |-> "test"],
      [session_id |-> "", agent_name |-> "other"] }

Descriptions == {"", "Greet someone"}

\* An exception class is its method resolution order without object: the
\* qualified name of the class, then those of the classes it derives from.
\* Exc(name) is a class that derives from Exception directly, as TypeError
\* and ValueError do.
Exc(name) == <<name, "builtins.Exception", "builtins.BaseException">>

\* asyncio.CancelledError, raised at the await of a cancelled task
CancelledError == <<"asyncio.exceptions.CancelledError", "builtins.BaseException">>

\* How the body of a handler ends: with a value, or with an exception of
\* class exc (<<>> when there is none).
Return(v) == [kind |-> "return", value |-> v, exc |-> <<>>, msg |-> ""]
Raise(exc, msg) == [kind |-> "raise", value |-> 0, exc |-> exc, msg |-> msg]

\* the body of handler h, run on params that bind.  a + b is the sum of
\* two integers and the concatenation of two strings (every string
\* parameter is 'x'); an integer and a string raise TypeError, with the
\* message of the left operand's type.
RunHandler(h, params) ==
    IF h = "add" THEN
        IF params["a"].int /\ params["b"].int
        THEN Return(params["a"].v + params["b"].v)
        ELSE IF ~params["a"].int /\ ~params["b"].int
        THEN Return("xx")
        ELSE IF params["a"].int
        THEN Raise(Exc("builtins.TypeError"), "unsupported operand type(s) for +: 'int' and 'str'")
        ELSE Raise(Exc("builtins.TypeError"), "can only concatenate str (not \"int\") to str")
    ELSE IF h = "fail" THEN Raise(Exc("builtins.ValueError"), "boom")
    ELSE IF h = "bad_type" THEN Raise(Exc("builtins.TypeError"), "object of type 'NoneType' has no len()")
    ELSE IF h = "slow" THEN Return(1)
    ELSE IF h = "float_op" THEN Raise(<<"decimal.FloatOperation", "decimal.DecimalException",
                  "builtins.ArithmeticError", "builtins.TypeError",
                  "builtins.Exception", "builtins.BaseException">>, "f")
    ELSE Raise(<<"builtins.SystemExit", "builtins.BaseException">>, "")

\* handler(**params): the call itself raises TypeError when the keywords are
\* not the declared parameters
CallHandler(h, params) ==
    IF DOMAIN params # HandlerParams(h)
    THEN Raise(Exc("builtins.TypeError"), "unexpected or missing keyword argument")
    ELSE RunHandler(h, params)

\* `except cls` catches an exception of class exc: cls is exc or a class
\* exc derives from, that is, cls is in the method resolution order of exc.
Catches(cls, exc) == \E k \in DOMAIN exc : exc[k] = cls

\* ToolDefinition(name, description, input_schema, output_schema)
ToolDefinition(name, description) ==
    [name |-> name, description |-> description,
     input_schema |-> "", output_schema |-> ""]

\* ToolInvokeResult(success, result, error): result and error are <<>> for
\* None, else <<value>> and the pieces of the message
ToolInvokeResult(success, result, error) ==
    [success |-> success, result |-> result, error |-> error]

\* How a call of invoke() ends: it returns a ToolInvokeResult, or an
\* exception (exc) leaves it.
Returned(r) == [kind |-> "returned", r |-> r, exc |-> <<>>]
Propagated(exc) ==
    [kind |-> "propagated", r |-> ToolInvokeResult(FALSE, <<>>, <<>>), exc |-> exc]
NoOutcome == [kind |-> "none", r |-> ToolInvokeResult(FALSE, <<>>, <<>>), exc |-> <<>>]

EmptyRegistry == [k \in {} |-> 0]

NoEnd == [kind |-> "none", value |-> 0, exc |-> <<>>, msg |-> ""]

\* An invoke() coroutine.  pc: "idle", "suspended" (inside its handler, at
\* an await) or "done"; name, params and context of the latest call; handler:
\* the handler it looked up (<<>> when the name was absent); ended: how the
\* call of the handler ended; outcome: how invoke() ended.
Invocation(pc, name, params, context, handler, ended, outcome) ==
    [pc |-> pc, name |-> name, params |-> params, context |-> context,
     handler |-> handler, ended |-> ended, outcome |-> outcome]

\* What register() or unregister() returned: the ToolDefinition (<<defn>>) or
\* the boolean (value); existed: the name was registered before the call.
Ret(op, name, value, defn, existed) ==
    [op |-> op, name |-> name, value |-> value, defn |-> defn, existed |-> existed]

NoRet == Ret("none", "", FALSE, <<>>, FALSE)

\* get(name): <<(definition, handler)>>, or <<>> for None
registry_get(t, name) == IF name \in DOMAIN t THEN <<t[name]>> ELSE <<>>

\* len(registry)
registry_len(t) == Cardinality(DOMAIN t)

\* name in registry
registry_contains(t, name) == name \in DOMAIN t

\* register keeping the registration a name already has
registerFirstWins(name, handler, description) ==
    /\ tools' = [k \in DOMAIN tools \cup {name} |->
                    IF k \in DOMAIN tools
                    THEN tools[k]
                    ELSE [defn |-> ToolDefinition(name, description), handler |-> handler]]
    /\ ret' = Ret("register", name, TRUE, <<ToolDefinition(name, description)>>,
                  name \in DOMAIN tools)
    /\ rebound' = rebound \cup {i \in Invokers : invs[i].pc = "suspended" /\ invs[i].name = name}
    /\ UNCHANGED invs
    /\ UNCHANGED notReg

register(name, handler, description) ==
    /\ tools' = [k \in DOMAIN tools \cup {name} |->
                    IF k = name
                    THEN [defn |-> ToolDefinition(name, description), handler |-> handler]
                    ELSE tools[k]]
    /\ ret' = Ret("register", name, TRUE, <<ToolDefinition(name, description)>>,
                  name \in DOMAIN tools)
    /\ rebound' = rebound \cup {i \in Invokers : invs[i].pc = "suspended" /\ invs[i].name = name}
    /\ UNCHANGED invs
    /\ UNCHANGED notReg

\* unregister answering whether the name is absent after the call
unregisterAlwaysTrue(name) ==
    /\ tools' = [k \in DOMAIN tools \ {name} |-> tools[k]]
    /\ ret' = Ret("unregister", name, name \notin DOMAIN tools', <<>>, name \in DOMAIN tools)
    /\ rebound' = rebound \cup {i \in Invokers : invs[i].pc = "suspended" /\ invs[i].name = name}
    /\ UNCHANGED invs
    /\ UNCHANGED notReg

\* self._tools.pop(name, None) is not None
unregister(name) ==
    /\ tools' = [k \in DOMAIN tools \ {name} |-> tools[k]]
    /\ ret' = Ret("unregister", name, name \in DOMAIN tools, <<>>, name \in DOMAIN tools)
    /\ rebound' = rebound \cup {i \in Invokers : invs[i].pc = "suspended" /\ invs[i].name = name}
    /\ UNCHANGED invs
    /\ UNCHANGED notReg

\* the lookup taking the entry out of the registry
AfterGetPop(t, name) == [k \in DOMAIN t \ {name} |-> t[k]]

\* the registry after entry = self._tools.get(name): a lookup changes nothing
AfterGet(t, name) == t

\* the try statement of invoke(), the handler call ending with e: the
\* clause `except TypeError` is tried first, then `except Exception`
InvokeOutcome(e) ==
    IF e.kind = "return"
    THEN Returned(ToolInvokeResult(TRUE, <<e.value>>, <<>>))
    ELSE IF Catches("builtins.TypeError", e.exc)
    THEN Returned(ToolInvokeResult(FALSE, <<>>, <<"Invalid parameters: ", e.msg>>))
    ELSE IF Catches("builtins.Exception", e.exc)
    THEN Returned(ToolInvokeResult(FALSE, <<>>, <<"Tool error: ", e.msg>>))
    ELSE Propagated(e.exc)

\* InvokeBegin refusing a context that names no session
InvokeBeginNeedsSession(i, name, params, context) ==
    /\ invs[i].pc # "suspended"
    /\ IF name \notin DOMAIN tools THEN
            invs' = [invs EXCEPT ![i] =
                Invocation("done", name, params, context, <<>>, NoEnd,
                    Returned(ToolInvokeResult(FALSE, <<>>, <<"Tool not found: ", name>>)))]
       ELSE IF context.session_id = "" THEN
            invs' = [invs EXCEPT ![i] =
                Invocation("done", name, params, context, <<tools[name].handler>>, NoEnd,
                    Returned(ToolInvokeResult(FALSE, <<>>, <<"No session: ", name>>)))]
       ELSE IF DOMAIN params = HandlerParams(tools[name].handler)
               /\ Suspends(tools[name].handler) THEN
            invs' = [invs EXCEPT ![i] =
                Invocation("suspended", name, params, context,
                    <<tools[name].handler>>, NoEnd, NoOutcome)]
       ELSE
            invs' = [invs EXCEPT ![i] =
                Invocation("done", name, params, context,
                    <<tools[name].handler>>,
                    CallHandler(tools[name].handler, params),
                    InvokeOutcome(CallHandler(tools[name].handler, params)))]
    /\ tools' = AfterGet(tools, name)
    /\ rebound' = rebound \ {i}
    /\ UNCHANGED ret
    /\ UNCHANGED notReg

\* invoke(name, params, context), up to its return, the exception that
\* leaves it, or the first await inside the handler
InvokeBegin(i, name, params, context) ==
    /\ invs[i].pc # "suspended"
    /\ IF name \notin DOMAIN tools THEN
            invs' = [invs EXCEPT ![i] =
                Invocation("done", name, params, context, <<>>, NoEnd,
                    Returned(ToolInvokeResult(FALSE, <<>>, <<"Tool not found: ", name>>)))]
       ELSE IF DOMAIN params = HandlerParams(tools[name].handler)
               /\ Suspends(tools[name].handler) THEN
            invs' = [invs EXCEPT ![i] =
                Invocation("suspended", name, params, context,
                    <<tools[name].handler>>, NoEnd, NoOutcome)]
       ELSE
            invs' = [invs EXCEPT ![i] =
                Invocation("done", name, params, context,
                    <<tools[name].handler>>,
                    CallHandler(tools[name].handler, params),
                    InvokeOutcome(CallHandler(tools[name].handler, params)))]
    /\ tools' = AfterGet(tools, name)
    /\ rebound' = rebound \ {i}
    /\ UNCHANGED ret
    /\ UNCHANGED notReg

\* InvokeResume running the handler the name has when the handler resumes
InvokeResumeLate(i) ==
    /\ invs[i].pc = "suspended"
    /\ LET h == IF invs[i].name \in DOMAIN tools
                THEN tools[invs[i].name].handler
                ELSE invs[i].handler[1]
       IN  invs' = [invs EXCEPT
                ![i].pc = "done",
                ![i].ended = CallHandler(h, invs[i].params),
                ![i].outcome = InvokeOutcome(CallHandler(h, invs[i].params))]
    /\ UNCHANGED <<tools, ret, rebound>>
    /\ UNCHANGED notReg

\* the handler is resumed and runs to its end
InvokeResume(i) ==
    /\ invs[i].pc = "suspended"
    /\ invs' = [invs EXCEPT
            ![i].pc = "done",
            ![i].ended = RunHandler(invs[i].handler[1], invs[i].params),
            ![i].outcome = InvokeOutcome(RunHandler(invs[i].handler[1], invs[i].params))]
    /\ UNCHANGED <<tools, ret, rebound>>
    /\ UNCHANGED notReg

\* the task that runs invoke() is cancelled while its handler is suspended:
\* CancelledError is raised at the handler's await
InvokeCancel(i) ==
    /\ invs[i].pc = "suspended"
    /\ invs' = [invs EXCEPT
            ![i].pc = "done",
            ![i].ended = Raise(CancelledError, ""),
            ![i].outcome = InvokeOutcome(Raise(CancelledError, ""))]
    /\ UNCHANGED <<tools, ret, rebound>>
    /\ UNCHANGED notReg

----------------------------------------------------------------------------
(* Session (core/types.py) and Agent (agent.py).                           *)

\* at most this many Session objects are created in a run
MaxSessions == 2

SessionState ==
    {"initiating", "handshake", "active", "suspended", "resuming",
     "closing", "closed", "error"}

\* AgentID(name=name, public_key=public_key)
AgentID(name, public_key) == [name |-> name, public_key |-> public_key]

\* generate_id(): the n-th uuid4 drawn; two draws are never equal
generate_id(n) == [uuid4 |-> n]

\* an id no session was given
NoSuchId == generate_id(0)

\* Session(id=..., local_agent=..., remote_agent=..., state=...): created_at
\* and updated_at are two reads of the clock, at t1 and at t2
Session(id, local_agent, remote_agent, state, t1, t2) ==
    [id |-> id, local_agent |-> local_agent, remote_agent |-> remote_agent,
     state |-> state, created_at |-> t1, updated_at |-> t2]

\* the default of the state field
DefaultState == "initiating"

\* Agent._identity
Identity == AgentID(self_name, "pk_self")

NoSessions == [k \in {} |-> 0]

\* the Session objects the store refers to
Stored == {sessions[k] : k \in DOMAIN sessions}

ConnectResult(success, session, error) ==
    [success |-> success, session |-> session, error |-> error]

DNSRegistrationResult(success, domain, ntools, error) ==
    [success |-> success, domain |-> domain, tools |-> ntools, error |-> error]

\* a connect() coroutine: "idle", "resolving" (at the await of resolve) or "done"
Conn(pc, result) == [pc |-> pc, result |-> result]

NoConn == Conn("idle", ConnectResult(FALSE, <<>>, <<>>))

\* the register() coroutine: "idle", "waiting" (at the await of the POST) or
\* "done"; key_before: _dns_api_key when it was called; ntools: the length
\* of the tools payload it built
Registration(pc, api_key, key_before, ntools, result) ==
    [pc |-> pc, api_key |-> api_key, key_before |-> key_before,
     ntools |-> ntools, result |-> result]

NoRegistration ==
    Registration("idle", "", <<>>, 0, DNSRegistrationResult(FALSE, <<>>, 0, <<>>))

\* the latest call of start, stop, send or call_tool: value is what it
\* returned ("None", "True", "False") or the exception it raised
Answer(op, value) == [op |-> op, value |-> value]

ApiKeys == {"dom_x", "dom_y"}

\* the names and answers tried through connect: "ab", "-a"; a record with a
\* ttl of 2, not found, a JSON array
ConnectTargets == { <<97, 98>>, <<45, 97>> }
ConnectResponses ==
    { Http(200, Body("object", {"name", "endpoint", "publicKey", "tools", "ttl"},
                     "e1", Num(2), ToolList(<<ToolItem("t1")>>))),
      Http(404, NoBody),
      Http(200, Body("array", {}, "", Num(0), ToolList(<<>>))) }

\* the answers to POST /dns/register
RegisterResponses ==
    { Http(200, Body("object", {"name"}, "", Num(0), ToolList(<<>>))),
      Http(201, Body("invalid", {}, "", Num(0), ToolList(<<>>))),
      Http(409, NoBody),
      Failure("connect") }

\* start turning the flag over
startToggle ==
    /\ is_running' = ~is_running
    /\ aret' = Answer("start", "None")
    /\ UNCHANGED <<self_name, heap, sessions, dns_api_key, conns, regs>>
    /\ UNCHANGED <<dnsVars, notAgent>>

\* start(): the flag is set; nothing else for an agent that is running
start ==
    /\ is_running' = TRUE
    /\ aret' = Answer("start", "None")
    /\ UNCHANGED <<self_name, heap, sessions, dns_api_key, conns, regs>>
    /\ UNCHANGED <<dnsVars, notAgent>>

\* stop closing the sessions and leaving them in the store
stopKeepsStore ==
    /\ IF ~is_running
       THEN UNCHANGED <<heap, sessions, is_running>>
       ELSE /\ heap' = [o \in DOMAIN heap |->
                           IF o \in Stored THEN [heap[o] EXCEPT !.state = "closed"]
                           ELSE heap[o]]
            /\ sessions' = sessions
            /\ is_running' = FALSE
    /\ aret' = Answer("stop", "None")
    /\ UNCHANGED <<self_name, dns_api_key, conns, regs>>
    /\ UNCHANGED <<dnsVars, notAgent>>

\* stop(): nothing for an agent that is not running; else every session of
\* the store gets state CLOSED (no other field is written), the store is
\* cleared and the flag is reset
stop ==
    /\ IF ~is_running
       THEN UNCHANGED <<heap, sessions, is_running>>
       ELSE /\ heap' = [o \in DOMAIN heap |->
                           IF o \in Stored THEN [heap[o] EXCEPT !.state = "closed"]
                           ELSE heap[o]]
            /\ sessions' = NoSessions
            /\ is_running' = FALSE
    /\ aret' = Answer("stop", "None")
    /\ UNCHANGED <<self_name, dns_api_key, conns, regs>>
    /\ UNCHANGED <<dnsVars, notAgent>>

\* register(api_key) up to the await of the POST: the key is stored first
RegisterBegin(api_key) ==
    /\ regs.pc # "waiting"
    /\ dns_api_key' = <<api_key>>
    /\ regs' = Registration("waiting", api_key, dns_api_key, registry_len(tools),
                            NoRegistration.result)
    /\ UNCHANGED <<self_name, is_running, heap, sessions, conns, aret>>
    /\ UNCHANGED <<dnsVars, notAgent>>

\* What register() returns once the POST is answered by resp: success for
\* 200 and 201 with a JSON body; the except clause turns a body that is no
\* JSON and a failed request into a failure, as a status other than 200/201
RegisterResult(resp, ntools) ==
    IF resp.kind # "http"
    THEN DNSRegistrationResult(FALSE, <<>>, 0, <<resp.kind>>)
    ELSE IF resp.status \notin {200, 201}
    THEN DNSRegistrationResult(FALSE, <<>>, 0, <<"Registration failed: ", resp.status>>)
    ELSE IF resp.body.json = "invalid"
    THEN DNSRegistrationResult(FALSE, <<>>, 0, <<"JSONDecodeError">>)
    ELSE DNSRegistrationResult(TRUE, <<AgentPrefix \o self_name>>, ntools, <<>>)

\* register() from the answer to its return
RegisterComplete(resp) ==
    /\ regs.pc = "waiting"
    /\ regs' = [regs EXCEPT !.pc = "done", !.result = RegisterResult(resp, regs.ntools)]
    /\ UNCHANGED <<self_name, is_running, heap, sessions, dns_api_key, conns, aret>>
    /\ UNCHANGED <<dnsVars, notAgent>>

\* the remote identity being the agent's own
RemoteOfSelf(agent) == Identity

\* AgentID(name=resolved.name, public_key=resolved.public_key)
RemoteOf(agent) == AgentID(agent.name, agent.public_key)

\* connect() after resolve() returned or raised: the failure result, or a
\* new session put into the store under its id
ConnectEnd(c, result, t1, t2) ==
    IF result.kind = "ok"
    THEN /\ heap' = Append(heap,
                      Session(generate_id(Len(heap) + 1), Identity,
                              RemoteOf(result.agent[1]),
                              "active", t1, t2))
         /\ sessions' = [k \in DOMAIN sessions \cup {generate_id(Len(heap) + 1)} |->
                            IF k = generate_id(Len(heap) + 1) THEN Len(heap) + 1
                            ELSE sessions[k]]
         /\ conns' = [conns EXCEPT ![c] =
                         Conn("done", ConnectResult(TRUE, <<Len(heap) + 1>>, <<>>))]
    ELSE /\ UNCHANGED <<heap, sessions>>
         /\ conns' = [conns EXCEPT ![c] =
                         Conn("done", ConnectResult(FALSE, <<>>,
                                        <<"DNS resolution failed: ", result.code>>))]

\* connect(target), up to its return or the await inside resolve(); the
\* clock advances by e between the two reads of a new session
ConnectBegin(c, target, e) ==
    /\ conns[c].pc # "resolving"
    /\ Len(heap) < MaxSessions
    /\ ResolveBeginCalls(c, target)
    /\ IF calls'[c].pc = "waiting"
       THEN /\ e = 0
            /\ conns' = [conns EXCEPT ![c] = Conn("resolving", NoConn.result)]
            /\ UNCHANGED <<heap, sessions>>
       ELSE /\ calls'[c].result.kind # "ok" => e = 0
            /\ ConnectEnd(c, calls'[c].result, now, now + e)
    /\ Advance(0, e)
    /\ UNCHANGED <<self_name, is_running, dns_api_key, regs, aret>>
    /\ UNCHANGED notAgent

\* connect() from the answer to the request of resolve() to its return
ConnectComplete(c, resp, d, e) ==
    /\ conns[c].pc = "resolving"
    /\ ResolveCompleteCalls(c, resp, d)
    /\ calls'[c].result.kind # "ok" => e = 0
    /\ ConnectEnd(c, calls'[c].result, now + d, now + d + e)
    /\ Advance(d, e)
    /\ UNCHANGED <<self_name, is_running, dns_api_key, regs, aret>>
    /\ UNCHANGED notAgent

\* send(session_id, event): True iff the store has the session
send(session_id) ==
    /\ aret' = Answer("send", IF session_id \in DOMAIN sessions THEN "True" ELSE "False")
    /\ UNCHANGED <<self_name, is_running, heap, sessions, dns_api_key, conns, regs>>
    /\ UNCHANGED <<dnsVars, notAgent>>

\* call_tool(session_id, tool_name): None, or RuntimeError for a session the
\* store does not have
call_tool(session_id) ==
    /\ aret' = Answer("call_tool",
                      IF session_id \in DOMAIN sessions THEN "None" ELSE "RuntimeError")
    /\ UNCHANGED <<self_name, is_running, heap, sessions, dns_api_key, conns, regs>>
    /\ UNCHANGED <<dnsVars, notAgent>>

\* Session(id=generate_id(), local_agent=..., remote_agent=...) constructed
\* by a user of the library, the state left to its default
NewSession(e) ==
    /\ Len(heap) < MaxSessions
    /\ heap' = Append(heap,
                  Session(generate_id(Len(heap) + 1), Identity, AgentID(<<97, 98>>, "pk"),
                          DefaultState, now, now + e))
    /\ Advance(0, e)
    /\ UNCHANGED <<self_name, is_running, sessions, dns_api_key, conns, regs, aret>>
    /\ UNCHANGED <<cache, sent, calls, cleared>>
    /\ UNCHANGED notAgent

\* session.state = state: the field is a plain attribute of the dataclass
SetState(o, state) ==
    /\ o \in DOMAIN heap
    /\ heap[o].state # state
    /\ heap' = [heap EXCEPT ![o].state = state]
    /\ UNCHANGED <<self_name, is_running, sessions, dns_api_key, conns, regs, aret>>
    /\ UNCHANGED <<dnsVars, notAgent>>

\* time passes
AgentTick ==
    /\ Tick(1)

----------------------------------------------------------------------------
(* The validator applied to one string.                                    *)

\* the strings handed to the validator are up to this long, after a prefix
MaxLen == 3

\* a, A, 0, -, _, newline, U+00E9, U+0130, U+03A3, U+1F600
NameAlphabet == {97, 65, 48, 45, 95, 10, 233, 304, 931, 128512}

\* n times the letter a
Pad(n) == [i \in 1..n |-> 97]

\* the lengths of the prefixes: none, and one that brings a string to the
\* limit of 50
PadLens == {0, 48}

Strings(n) == UNION {[1..k -> NameAlphabet] : k \in 0..n}

NameInputs == {Pad(n) \o t : n \in PadLens, t \in Strings(MaxLen)}

\* the same strings as URIs, and two strings without the prefix:
\* "Agent://ab", "agent:/ab"
UriInputs ==
    {AgentPrefix \o t : t \in NameInputs}
    \cup { <<65, 103, 101, 110, 116, 58, 47, 47, 97, 98>>,
           <<97, 103, 101, 110, 116, 58, 47, 97, 98>> }

\* A string and what was computed from it.  valid: the boolean answer;
\* uri, parsed, again: the results of to_agent_uri, parse_agent_uri and of
\* to_agent_uri applied to the parsed name, None where there is none.
Probe(pc, input, valid) ==
    [pc |-> pc, input |-> input, valid |-> valid,
     uri |-> None, parsed |-> None, again |-> None]

NoProbe == Probe("none", <<>>, FALSE)

\* validate_agent_name(probe.input) is called
Validate ==
    /\ probe.pc = "given"
    /\ probe' = Probe("answered", probe.input, validate_agent_name(probe.input))
    /\ UNCHANGED <<dnsVars, regVars, agentVars, frame>>

\* to_agent_uri(None) is never called: a name that did not parse has no URI
UriOf(parsed) == IF parsed = None THEN None ELSE to_agent_uri(parsed)

\* validate_agent_name(n), to_agent_uri(n), parse_agent_uri of that URI and
\* to_agent_uri of the parsed name, for n = probe.input
Canonicalize ==
    /\ probe.pc = "given"
    /\ probe' = [Probe("canonical", probe.input, validate_agent_name(probe.input))
                    EXCEPT !.uri = to_agent_uri(probe.input),
                           !.parsed = parse_agent_uri(to_agent_uri(probe.input)),
                           !.again = UriOf(parse_agent_uri(to_agent_uri(probe.input)))]
    /\ UNCHANGED <<dnsVars, regVars, agentVars, frame>>

\* is_valid_agent_uri(u), parse_agent_uri(u) and to_agent_uri of the parsed
\* name, for u = probe.input
ParseUri ==
    /\ probe.pc = "given"
    /\ probe' = [Probe("parsed", probe.input, is_valid_agent_uri(probe.input))
                    EXCEPT !.parsed = parse_agent_uri(probe.input),
                           !.again = UriOf(parse_agent_uri(probe.input))]
    /\ UNCHANGED <<dnsVars, regVars, agentVars, frame>>

\* Agent.uri
agent_uri == AgentPrefix \o self_name

\* Agent(probe.input): ValueError for a name the validator rejects, else the
\* agent with the name as it was given
AgentInit ==
    /\ probe.pc = "given"
    /\ self_name = None
    /\ IF validate_agent_name(probe.input)
       THEN /\ self_name' = probe.input
            /\ probe' = Probe("constructed", probe.input, TRUE)
       ELSE /\ UNCHANGED self_name
            /\ probe' = Probe("ValueError", probe.input, FALSE)
    /\ UNCHANGED <<is_running, heap, sessions, dns_api_key, conns, regs, aret>>
    /\ UNCHANGED <<dnsVars, regVars, frame>>

----------------------------------------------------------------------------
(* Protocol frames (protocol/types.py).                                    *)

FrameClasses == {"RequestFrame", "ResponseFrame", "EventFrame", "ErrorFrame"}

\* MessageType
MessageType == {"request", "response", "event", "error"}

\* the default of the type field of each class
TypeOf(cls) ==
    CASE cls = "RequestFrame" -> "request"
      [] cls = "ResponseFrame" -> "response"
      [] cls = "EventFrame" -> "event"
      [] cls = "ErrorFrame" -> "error"

\* An object.  cls: its class, one of the four frame classes or another
\* one; the fields a class does not have are "".  id, method, request_id and
\* event are strings, "" the empty one.
Frame(cls, type, id, method, request_id, event) ==
    [cls |-> cls, type |-> type, id |-> id, method |-> method,
     request_id |-> request_id, event |-> event]

\* the ids given to a frame: the empty string, and the default,
\* generate_id(), a string of 36 characters
FrameIds == {"", "uuid4"}

\* the values of a string field: empty, and not empty
FieldValues == {"", "x"}

\* RequestFrame(...), ResponseFrame(...), EventFrame(...), ErrorFrame(...):
\* every field has a default and no argument is looked at
NewFrame(cls, type, id, field1, field2) ==
    CASE cls = "RequestFrame" -> Frame(cls, type, id, field1, "", "")
      [] cls = "ResponseFrame" -> Frame(cls, type, id, "", field1, "")
      [] cls = "EventFrame" -> Frame(cls, type, id, "", "", field1)
      [] cls = "ErrorFrame" -> Frame(cls, type, id, "", field1, "")

\* values that are no frames: a string, None, and a dict with the keys of a
\* request frame
NonFrames ==
    { Frame("str", "", "", "", "", ""),
      Frame("NoneType", "", "", "", "", ""),
      Frame("dict", "request", "uuid4", "x", "", "") }

\* validate_frame without the check of an ErrorFrame
validate_frame_no_error_check(x) ==
    IF x.cls \notin FrameClasses THEN FALSE
    ELSE IF x.id = "" THEN FALSE
    ELSE IF x.cls = "RequestFrame" /\ x.method = "" THEN FALSE
    ELSE IF x.cls = "ResponseFrame" /\ x.request_id = "" THEN FALSE
    ELSE IF x.cls = "EventFrame" /\ x.event = "" THEN FALSE
    ELSE TRUE

validate_frame(x) ==
    IF x.cls \notin FrameClasses THEN FALSE
    ELSE IF x.id = "" THEN FALSE
    ELSE IF x.cls = "RequestFrame" /\ x.method = "" THEN FALSE
    ELSE IF x.cls = "ResponseFrame" /\ x.request_id = "" THEN FALSE
    ELSE IF x.cls = "EventFrame" /\ x.event = "" THEN FALSE
    ELSE IF x.cls = "ErrorFrame" /\ x.request_id = "" THEN FALSE
    ELSE TRUE

\* pc: "none", "built" (a frame was constructed), "given" (a value that is
\* no frame) or "validated"
FrameProbe(pc, x, valid) == [pc |-> pc, x |-> x, valid |-> valid]

NoFrame == FrameProbe("none", Frame("NoneType", "", "", "", "", ""), FALSE)

\* a frame is constructed
BuildFrame(cls, type, id, field1) ==
    /\ frame.pc = "none"
    /\ frame' = FrameProbe("built", NewFrame(cls, type, id, field1, ""), FALSE)
    /\ UNCHANGED <<dnsVars, regVars, agentVars, probe>>

\* a value that is no frame is taken
GiveNonFrame(x) ==
    /\ frame.pc = "none"
    /\ frame' = FrameProbe("given", x, FALSE)
    /\ UNCHANGED <<dnsVars, regVars, agentVars, probe>>

\* validate_frame(frame.x) is called
ValidateFrame ==
    /\ frame.pc \in {"built", "given"}
    /\ frame' = FrameProbe("validated", frame.x, validate_frame(frame.x))
    /\ UNCHANGED <<dnsVars, regVars, agentVars, probe>>

----------------------------------------------------------------------------
InitFields ==
    /\ cache = EmptyCache
    /\ now = 0
    /\ ticks = 0
    /\ sent = 0
    /\ calls = [c \in Callers |-> Call("idle", <<>>, <<>>, NoResult, FALSE, FALSE, 0, NoAnswer)]
    /\ tools = EmptyRegistry
    /\ invs = [i \in Invokers |->
                Invocation("idle", "", [k \in {} |-> IntV(0)],
                           [session_id |-> "", agent_name |-> ""], <<>>, NoEnd, NoOutcome)]
    /\ ret = NoRet
    /\ is_running = FALSE
    /\ heap = <<>>
    /\ sessions = NoSessions
    /\ dns_api_key = <<>>
    /\ conns = [c \in Callers |-> NoConn]
    /\ regs = NoRegistration
    /\ aret = Answer("none", "None")
    /\ frame = NoFrame
    /\ cleared = {}
    /\ rebound = {}

\* an agent named "me" has been constructed
InitState ==
    /\ InitFields
    /\ self_name = <<109, 101>>

Init ==
    /\ InitState
    /\ probe = NoProbe

\* a string is given, and no agent has been constructed yet
InitNames ==
    /\ InitFields
    /\ self_name = None
    /\ probe \in {Probe("given", input, FALSE) : input \in NameInputs \cup UriInputs}

\* one caller, resolving one name after the other
NextDns ==
    \/ \E c \in Sequential, target \in Targets : ResolveBegin(c, target)
    \/ \E c \in Sequential, resp \in Responses, d \in {0, 1} : ResolveComplete(c, resp, d)
    \/ clear_cache
    \/ \E d \in TickSteps : Tick(d)

SpecDns == Init /\ [][NextDns]_vars

\* "ab" and "agent://Ab": two targets of the one name "ab"
PairTargets == { <<97, 98>>, AgentPrefix \o <<65, 98>> }

\* two records that differ in every field, and not found
PairResponses ==
    { Http(200, Body("object", {"name", "endpoint", "publicKey", "tools", "ttl"},
                     "e1", Num(2), ToolList(<<ToolItem("t1")>>))),
      Http(200, Wrapped(Body("object", {"endpoint", "public_key", "region"},
                             "e2", Num(1), ToolList(<<>>)))),
      Http(404, NoBody) }

\* two callers whose resolutions overlap
NextDnsPair ==
    \/ \E c \in Callers, target \in PairTargets : ResolveBegin(c, target)
    \/ \E c \in Callers, resp \in PairResponses, d \in {0, 1} : ResolveComplete(c, resp, d)
    \/ Tick(1)

SpecDnsPair == Init /\ [][NextDnsPair]_vars

\* one coroutine invoking tools, the registry changing in between
NextRegistry ==
    \/ \E name \in ToolNames, handler \in Handlers, description \in Descriptions :
            register(name, handler, description)
    \/ \E name \in ToolNames : unregister(name)
    \/ \E i \in SoleInvoker, name \in ToolNames, params \in ParamSets, context \in Contexts :
            InvokeBegin(i, name, params, context)
    \/ \E i \in SoleInvoker : InvokeResume(i)
    \/ \E i \in SoleInvoker : InvokeCancel(i)

SpecRegistry == Init /\ [][NextRegistry]_vars

\* the handlers and parameters of two coroutines that invoke one tool
PairHandlers == {"add", "fail", "slow"}
PairParams == {params \in ParamSets : DOMAIN params \in {{}, {"a", "b"}}}

\* two coroutines invoking tools, their invocations overlapping, the
\* registry changing in between
NextRegistryPair ==
    \/ \E handler \in PairHandlers : register("t1", handler, "")
    \/ unregister("t1")
    \/ \E i \in Invokers, params \in PairParams, context \in Contexts :
            InvokeBegin(i, "t1", params, context)
    \/ \E i \in Invokers : InvokeResume(i)
    \/ \E i \in Invokers : InvokeCancel(i)

SpecRegistryPair == Init /\ [][NextRegistryPair]_vars

\* the agent used by one caller at a time; a connect() can be suspended
\* while other calls are made
NextAgent ==
    \/ start
    \/ stop
    \/ \E c \in Sequential, target \in ConnectTargets, e \in {0, 1} :
            ConnectBegin(c, target, e)
    \/ \E c \in Sequential, resp \in ConnectResponses, d \in {0, 1}, e \in {0, 1} :
            ConnectComplete(c, resp, d, e)
    \/ \E n \in 0..MaxSessions : send(generate_id(n))
    \/ \E n \in 0..MaxSessions : call_tool(generate_id(n))
    \/ AgentTick

SpecAgent == Init /\ [][NextAgent]_vars

\* registration with the directory, tools being registered and the agent
\* started and stopped in between
NextRegistration ==
    \/ \E api_key \in ApiKeys : RegisterBegin(api_key)
    \/ \E resp \in RegisterResponses : RegisterComplete(resp)
    \/ \E name \in ToolNames : register(name, "add", "")
    \/ start
    \/ stop

SpecRegistration == Init /\ [][NextRegistration]_vars

\* the agent, and a user of the library constructing sessions and assigning
\* their state
NextSession ==
    \/ start
    \/ stop
    \/ \E c \in Sequential, target \in ConnectTargets, e \in {0, 1} :
            ConnectBegin(c, target, e)
    \/ \E c \in Sequential, resp \in ConnectResponses, d \in {0, 1}, e \in {0, 1} :
            ConnectComplete(c, resp, d, e)
    \/ \E e \in {0, 1} : NewSession(e)
    \/ \E o \in 1..MaxSessions, state \in SessionState : SetState(o, state)

SpecSession == Init /\ [][NextSession]_vars

NextNames ==
    \/ Validate
    \/ Canonicalize
    \/ ParseUri
    \/ AgentInit

SpecNames == InitNames /\ [][NextNames]_vars

NextFrames ==
    \/ \E cls \in FrameClasses, type \in MessageType, id \in FrameIds, field1 \in FieldValues :
            BuildFrame(cls, type, id, field1)
    \/ \E x \in NonFrames : GiveNonFrame(x)
    \/ ValidateFrame

SpecFrames == Init /\ [][NextFrames]_vars

----------------------------------------------------------------------------
(* Claims about the resolver.                                              *)

\* the target denotes the name k: it is k, or a URI that parses to k
Denotes(target, k) == target = k \/ parse_agent_uri(target) = k

\* the target fails validation
Invalid(target) ==
    IF StartsWith(target, AgentPrefix)
    THEN parse_agent_uri(target) = None
    ELSE ~validate_agent_name(target)

\* the step is one in which caller c calls resolve()
Begins(c) == calls[c].pc # "waiting" /\ calls'[c] # calls[c]

\* the step is one in which the request of caller c is answered
Completes(c) == calls[c].pc = "waiting" /\ calls'[c] # calls[c]

\* C1: a resolve of a name whose cache entry has expires_at greater than the
\* current time returns the cached endpoint, issues no request and leaves
\* the cache alone.
C1_CacheHitNoRequest ==
    [][\A c \in Callers : \A k \in DOMAIN cache :
        (Begins(c) /\ Denotes(calls'[c].target, k) /\ cache[k].expires_at > now)
            => /\ sent' = sent
               /\ cache' = cache
               /\ calls'[c].pc = "done"
               /\ calls'[c].result = Ok(cache[k].agent)]_vars

\* a second resolve was served from the cache: one request in total
C1_Witness ==
    \E c \in Callers :
        /\ calls[c].pc = "done" /\ calls[c].hit
        /\ calls[c].result.kind = "ok"
        /\ sent = 1

\* C2: a resolve of a name whose entry has expired (now >= expires_at) issues
\* a request; when the request succeeds the entry holds the new endpoint,
\* resolved now, and an expires_at computed from the clock of this
\* resolution; no resolve returns an endpoint whose entry had expired.
C2_ExpiredReResolved ==
    [][\A c \in Callers :
        /\ \A k \in DOMAIN cache :
              (Begins(c) /\ Denotes(calls'[c].target, k) /\ now >= cache[k].expires_at)
                  => sent' = sent + 1 /\ calls'[c].pc = "waiting"
        /\ (Completes(c) /\ calls'[c].result.kind = "ok")
              => /\ calls[c].name \in DOMAIN cache'
                 /\ cache'[calls[c].name].agent = calls'[c].result.agent[1]
                 /\ calls'[c].result.agent[1].resolved_at = now
                 /\ cache'[calls[c].name].expires_at
                        = now' + calls'[c].result.agent[1].ttl
        /\ (calls'[c] # calls[c] /\ calls'[c].result.kind = "ok")
              => \/ calls'[c].result.agent[1].resolved_at = now
                 \/ /\ calls'[c].name \in DOMAIN cache
                    /\ cache[calls'[c].name].agent = calls'[c].result.agent[1]
                    /\ cache[calls'[c].name].expires_at > now]_vars

\* a call that found an expired entry has replaced it
C2_Witness ==
    \E c \in Callers :
        /\ calls[c].pc = "done" /\ calls[c].stale
        /\ calls[c].result.kind = "ok"
        /\ cache[calls[c].name].agent = calls[c].result.agent[1]
        /\ cache[calls[c].name].expires_at > now

\* C3: every key of the cache and the name of every endpoint resolve returns
\* is lowercase.
C3_CanonicalNames ==
    /\ \A k \in DOMAIN cache : k = Lower(k)
    /\ \A c \in Callers :
          calls[c].result.kind = "ok"
              => calls[c].result.agent[1].name = Lower(calls[c].result.agent[1].name)

\* C4: a resolve of a target that fails validation raises
\* DNSError(INVALID_NAME), issues no request and leaves the cache alone.
C4_InvalidName ==
    [][\A c \in Callers :
        (Begins(c) /\ Invalid(calls'[c].target))
            => /\ calls'[c].pc = "done"
               /\ calls'[c].result = DNSError("INVALID_NAME")
               /\ sent' = sent
               /\ cache' = cache]_vars

\* an invalid URI was rejected, the cache holding an entry
C4_Witness ==
    /\ cache # EmptyCache
    /\ \E c \in Callers :
          /\ calls[c].result = DNSError("INVALID_NAME")
          /\ StartsWith(calls[c].target, AgentPrefix)
          /\ calls[c].nreq = 0

\* C5: a resolve that fails, for whatever reason, leaves the cache as it was.
C5_FailureKeepsCache ==
    [][\A c \in Callers :
        (calls'[c] # calls[c] /\ calls'[c].pc = "done" /\ calls'[c].result.kind # "ok")
            => cache' = cache]_vars

\* the re-resolution of a cached name failed on the payload, and its entry
\* is still there
C5_Witness ==
    \E c \in Callers :
        /\ calls[c].pc = "done" /\ calls[c].stale
        /\ calls[c].result = Raised("TypeError")
        /\ calls[c].name \in DOMAIN cache

\* C6: 404 gives NOT_FOUND, another status than 200 gives SERVER_ERROR, a
\* timeout gives TIMEOUT, and every other transport failure gives
\* NETWORK_ERROR.
C6_ErrorKinds ==
    \A c \in Callers :
        (calls[c].pc = "done" /\ calls[c].via.kind # "none")
            => /\ (calls[c].via.kind = "http" /\ calls[c].via.status = 404)
                      => calls[c].result = DNSError("NOT_FOUND")
               /\ (calls[c].via.kind = "http" /\ calls[c].via.status \notin {200, 404})
                      => calls[c].result = DNSError("SERVER_ERROR")
               /\ calls[c].via.kind = "timeout"
                      => calls[c].result = DNSError("TIMEOUT")
               /\ calls[c].via.kind \in {"connect", "transport"}
                      => calls[c].result = DNSError("NETWORK_ERROR")

\* C7: a resolve that does not return an endpoint raises a DNSError with one
\* of the five codes.
C7_OnlyDNSErrors ==
    \A c \in Callers :
        (calls[c].pc = "done" /\ calls[c].result.kind # "ok")
            => /\ calls[c].result.kind = "DNSError"
               /\ calls[c].result.code \in DNSErrorCode

\* C8: one call of resolve issues no request when the name is invalid or the
\* cache is hit, and exactly one otherwise; nothing is sent again once the
\* request has been answered.
C8_AtMostOneRequest ==
    [][\A c \in Callers :
        calls'[c] # calls[c] =>
            IF calls[c].pc # "waiting"
            THEN /\ sent' - sent = calls'[c].nreq
                 /\ calls'[c].nreq = IF calls'[c].pc = "done" THEN 0 ELSE 1
                 /\ calls'[c].pc = "done"
                        <=> (calls'[c].hit \/ calls'[c].result = DNSError("INVALID_NAME"))
            ELSE /\ sent' = sent
                 /\ calls'[c].pc = "done"
                 /\ calls'[c].nreq = 1 /\ calls[c].nreq = 1]_vars

\* a request timed out and the call ended, one request sent in all
C8_Witness ==
    \E c \in Callers :
        /\ calls[c].pc = "done"
        /\ calls[c].result = DNSError("TIMEOUT")
        /\ calls[c].nreq = 1 /\ sent = 1

----------------------------------------------------------------------------
(* Claims about the tool registry.                                         *)

\* C9: every call of invoke() ends by returning a ToolInvokeResult, whatever
\* the name, the parameters and the behaviour of the handler.
C9_InvokeTotal ==
    \A i \in Invokers :
        invs[i].pc = "done" => invs[i].outcome.kind = "returned"

\* C10: a name that is not registered when invoke() is called gives
\* success=False with the error "Tool not found: <name>" and no handler is
\* called; a handler that returns gives success=True, its value as the
\* result and no error; a handler that fails (the call or its body ends with
\* an exception) gives success=False, no result and an error that ends with
\* the message of the exception; and in every result success is true iff
\* the error is None.
C10_InvokeOutcome ==
    [][\A i \in Invokers :
        (invs'[i] # invs[i] /\ invs'[i].pc = "done") =>
            /\ (invs[i].pc # "suspended" /\ invs'[i].name \notin DOMAIN tools)
                  => /\ invs'[i].outcome = Returned(ToolInvokeResult(
                            FALSE, <<>>, <<"Tool not found: ", invs'[i].name>>))
                     /\ invs'[i].handler = <<>>
                     /\ invs'[i].ended = NoEnd
            /\ (invs[i].pc # "suspended" /\ invs'[i].name \in DOMAIN tools)
                  => /\ invs'[i].handler = <<tools[invs'[i].name].handler>>
                     /\ invs'[i].ended # NoEnd
            /\ invs'[i].ended.kind = "return"
                  => invs'[i].outcome = Returned(ToolInvokeResult(
                            TRUE, <<invs'[i].ended.value>>, <<>>))
            /\ invs'[i].ended.kind = "raise"
                  => /\ invs'[i].outcome.kind = "returned"
                     /\ ~invs'[i].outcome.r.success
                     /\ invs'[i].outcome.r.result = <<>>
                     /\ Len(invs'[i].outcome.r.error) = 2
                     /\ invs'[i].outcome.r.error[2] = invs'[i].ended.msg
            /\ invs'[i].outcome.kind = "returned"
                  => (invs'[i].outcome.r.success <=> invs'[i].outcome.r.error = <<>>)]_vars

\* C11: a call of invoke(), however it ends, leaves the registered names,
\* their definitions and their handlers as they were, and an invoke of a
\* registered name is dispatched to the handler registered under it.
C11_InvokeKeepsRegistry ==
    [][\A i \in Invokers :
        invs'[i] # invs[i] =>
            /\ tools' = tools
            /\ (invs[i].pc # "suspended" /\ invs'[i].name \in DOMAIN tools')
                  => invs'[i].handler = <<tools'[invs'[i].name].handler>>]_vars

\* the handler of a registered tool failed, and the tool is still registered
\* with that handler
C11_Witness ==
    \E i \in Invokers :
        /\ invs[i].pc = "done"
        /\ invs[i].ended = Raise(Exc("builtins.ValueError"), "boom")
        /\ invs[i].name \in DOMAIN tools
        /\ tools[invs[i].name].handler = "fail"

\* the keywords of the call are the parameters the handler declares
Binds(v) == DOMAIN v.params = HandlerParams(v.handler[1])

\* C12: "Invalid parameters" is reported for binding mismatches only, and a
\* failure raised inside the body of the handler is reported as "Tool error".
C12_BindingDistinguished ==
    \A i \in Invokers :
        (invs[i].pc = "done" /\ invs[i].handler # <<>>)
            => /\ (/\ invs[i].outcome.kind = "returned"
                   /\ invs[i].outcome.r.error # <<>>
                   /\ invs[i].outcome.r.error[1] = "Invalid parameters: ")
                      => ~Binds(invs[i])
               /\ (Binds(invs[i]) /\ invs[i].ended.kind = "raise")
                      => /\ invs[i].outcome.kind = "returned"
                         /\ invs[i].outcome.r.error # <<>>
                         /\ invs[i].outcome.r.error[1] = "Tool error: "

\* C13: register(name, handler, ...) makes get(name) the definition and the
\* handler just given, leaves one entry for name (len grows by one exactly
\* when name was absent) and leaves every other entry alone; it returns the
\* definition.
C13_RegisterLastWins ==
    [][\A name \in ToolNames, handler \in Handlers, description \in Descriptions :
        register(name, handler, description) =>
            /\ registry_get(tools', name)
                  = <<[defn |-> ToolDefinition(name, description), handler |-> handler]>>
            /\ ret'.defn = <<ToolDefinition(name, description)>>
            /\ registry_len(tools')
                  = registry_len(tools) + (IF registry_contains(tools, name) THEN 0 ELSE 1)
            /\ \A other \in ToolNames \ {name} :
                  registry_get(tools', other) = registry_get(tools, other)]_vars

\* a name that was registered has been registered again, with fail, the
\* other name being registered too
C13_Witness ==
    /\ ret.op = "register" /\ ret.existed
    /\ tools[ret.name].handler = "fail"
    /\ tools[ret.name].defn = ToolDefinition(ret.name, "Greet someone")
    /\ registry_len(tools) = 2

\* C14: unregister(name) returns true iff name was registered; after it name
\* is absent, every other entry is as before, and len is one less exactly
\* when it returned true; while the latest call is an unregister, its name
\* is absent, so that the same call again returns false.
C14_Unregister ==
    [][\A name \in ToolNames :
        unregister(name) =>
            /\ ret'.value = registry_contains(tools, name)
            /\ ~registry_contains(tools', name)
            /\ registry_get(tools', name) = <<>>
            /\ \A other \in ToolNames \ {name} :
                  registry_get(tools', other) = registry_get(tools, other)
            /\ registry_len(tools')
                  = registry_len(tools) - (IF ret'.value THEN 1 ELSE 0)
            /\ (ret.op = "unregister" /\ ret.name = name) => ~ret'.value]_vars

\* a name that was not registered was unregistered: false, the other name
\* still registered
C14_Witness ==
    /\ ret.op = "unregister" /\ ~ret.value /\ ~ret.existed
    /\ registry_len(tools) = 1

\* C27: a resolve that starts while another caller waits for the answer to
\* its request for the same name, the name having no entry, issues a request
\* of its own; every resolve that succeeds replaces the entry of its name by
\* its own endpoint, whole, so that after both the cache has the one entry
\* of the call that completed last.
C27_OverlapOverwrites ==
    [][\A c \in Callers :
        /\ (/\ Begins(c)
            /\ \E o \in Callers \ {c} :
                  calls[o].pc = "waiting" /\ calls[o].name = calls'[c].name
            /\ calls'[c].name \notin DOMAIN cache)
              => /\ calls'[c].pc = "waiting"
                 /\ calls'[c].nreq = 1
                 /\ sent' = sent + 1
        /\ (Completes(c) /\ calls'[c].result.kind = "ok")
              => /\ DOMAIN cache' = DOMAIN cache \cup {calls[c].name}
                 /\ cache'[calls[c].name].agent = calls'[c].result.agent[1]
                 /\ \A k \in DOMAIN cache \ {calls[c].name} : cache'[k] = cache[k]]_vars

\* two calls for "ab", neither of which found an entry, got different
\* records; the cache has the one entry, with the endpoint of the second
\* caller
C27_Witness ==
    /\ \A c \in Callers :
          /\ calls[c].pc = "done" /\ calls[c].result.kind = "ok"
          /\ ~calls[c].hit /\ ~calls[c].stale /\ calls[c].nreq = 1
          /\ calls[c].name = <<97, 98>>
    /\ calls["c1"].result.agent[1].endpoint = "e1"
    /\ calls["c2"].result.agent[1].endpoint = "e2"
    /\ DOMAIN cache = {<<97, 98>>}
    /\ cache[<<97, 98>>].agent = calls["c2"].result.agent[1]

\* C28: every cache entry under key k holds an endpoint of name k, the name
\* resolve() went on with and not the name field of the payload, and its
\* expires_at is the resolved_at of the endpoint plus its ttl.
C28_EntryWellFormed ==
    \A k \in DOMAIN cache :
        /\ cache[k].agent.name = k
        /\ cache[k].expires_at = cache[k].agent.resolved_at + cache[k].agent.ttl

\* C29: clear_cache() leaves cache_size() at 0, and a resolve of a valid name
\* on an empty cache issues a request; cache_size() is the number of names
\* that have an entry.
C29_ClearCache ==
    [][/\ clear_cache => (cache_size' = 0 /\ DOMAIN cache' = {})
       /\ cache_size' = Cardinality(DOMAIN cache')
       /\ \A c \in Callers :
            (Begins(c) /\ cache_size = 0 /\ ~Invalid(calls'[c].target))
                => /\ calls'[c].pc = "waiting"
                   /\ sent' = sent + 1]_vars

\* a resolve stored its endpoint and returned, and the cache is empty: it
\* was cleared since
C29_Witness ==
    /\ cache_size = 0
    /\ \E c \in Callers :
          /\ calls[c].pc = "done" /\ calls[c].result.kind = "ok" /\ ~calls[c].hit

\* C30: a resolve whose request was on the wire when the cache was cleared
\* does not put its result into the cache.
C30_NoStoreAcrossClear ==
    [][\A c \in cleared : Completes(c) => cache' = cache]_vars

\* C31: only clear_cache removes cache entries: in every other step each
\* name that has an entry keeps one, whether the entry has expired or its
\* re-resolution failed, and cache_size() does not decrease.
C31_OnlyClearRemoves ==
    [][~clear_cache => /\ DOMAIN cache \subseteq DOMAIN cache'
                       /\ cache_size' >= cache_size]_vars

\* the re-resolution of an expired name failed, and cache_size() still
\* counts its expired entry
C31_Witness ==
    \E c \in Callers :
        /\ calls[c].pc = "done" /\ calls[c].stale
        /\ calls[c].result.kind # "ok"
        /\ calls[c].name \in DOMAIN cache
        /\ cache[calls[c].name].expires_at <= now
        /\ cache_size >= 1

\* C34: invoke() runs the handler the name had when it looked the name up.
\* A call of invoke() takes the handler the registry has for the name at
\* that moment, or reports that the tool was not found; while the handler is
\* suspended the invocation keeps it, whatever is registered or
\* unregistered meanwhile, and when the handler has run to its end the
\* invocation ends with the outcome of that handler.
C34_BoundAtLookup ==
    [][\A i \in Invokers :
        /\ (invs[i].pc # "suspended" /\ invs'[i] # invs[i]) =>
              IF invs'[i].name \in DOMAIN tools
              THEN /\ invs'[i].handler = <<tools[invs'[i].name].handler>>
                   /\ invs'[i].pc = "done" =>
                         invs'[i].outcome
                            = InvokeOutcome(CallHandler(tools[invs'[i].name].handler,
                                                        invs'[i].params))
              ELSE /\ invs'[i].pc = "done"
                   /\ invs'[i].outcome
                         = Returned(ToolInvokeResult(FALSE, <<>>,
                                        <<"Tool not found: ", invs'[i].name>>))
        /\ invs[i].pc = "suspended" =>
              /\ invs'[i].handler = invs[i].handler
              /\ invs'[i].name = invs[i].name
              /\ invs'[i].params = invs[i].params
              /\ (invs'[i].pc = "done" /\ invs'[i].ended.exc # CancelledError) =>
                    invs'[i].outcome
                       = InvokeOutcome(RunHandler(invs[i].handler[1], invs[i].params))]_vars

\* an invocation whose tool was registered with another handler, or
\* unregistered, while its handler was suspended has returned the value of
\* the handler it had looked up
C34_Witness ==
    \E i \in Invokers :
        /\ i \in rebound
        /\ invs[i].pc = "done"
        /\ invs[i].handler = <<"slow">>
        /\ invs[i].outcome = Returned(ToolInvokeResult(TRUE, <<1>>, <<>>))
        /\ \/ invs[i].name \notin DOMAIN tools
           \/ tools[invs[i].name].handler # "slow"

\* C35: the outcome of invoke(name, params, context) does not depend on
\* the context: two invocations of one name with the same params that found
\* the same handler, or both none, and whose handler ran to its end, have
\* ended alike, whatever their contexts.
C35_ContextIndependent ==
    \A i, j \in Invokers :
        ( /\ invs[i].pc = "done" /\ invs[j].pc = "done"
          /\ invs[i].name = invs[j].name
          /\ invs[i].params = invs[j].params
          /\ invs[i].handler = invs[j].handler
          /\ invs[i].context # invs[j].context
          /\ invs[i].ended.exc # CancelledError
          /\ invs[j].ended.exc # CancelledError )
            => /\ invs[i].outcome = invs[j].outcome
               /\ invs[i].ended = invs[j].ended

\* two invocations of add(3, 4) under different contexts have both
\* returned 7
C35_Witness ==
    \E i, j \in Invokers :
        /\ invs[i].pc = "done" /\ invs[j].pc = "done"
        /\ invs[i].name = invs[j].name
        /\ invs[i].params = invs[j].params
        /\ invs[i].handler = <<"add">> /\ invs[j].handler = <<"add">>
        /\ invs[i].context.session_id # invs[j].context.session_id
        /\ invs[i].context.agent_name # invs[j].context.agent_name
        /\ invs[i].outcome = Returned(ToolInvokeResult(TRUE, <<7>>, <<>>))
        /\ invs[j].outcome = invs[i].outcome

----------------------------------------------------------------------------
(* Claims about sessions and the agent.                                    *)

\* the transitions of the session state machine as the specification lists
\* them
ListedTransitions ==
    { <<"initiating", "handshake">>, <<"handshake", "active">>,
      <<"active", "suspended">>, <<"suspended", "resuming">>,
      <<"resuming", "active">>, <<"active", "closing">>, <<"closing", "closed">> }
    \cup { <<st, "error">> : st \in SessionState \ {"closed", "error"} }

\* C15: the state of a session changes along the listed transitions only;
\* any other change is refused and leaves the state as it was, so that
\* CLOSED and ERROR are never left.
C15_ListedTransitionsOnly ==
    [][\A o \in DOMAIN heap :
        heap'[o].state # heap[o].state
            => <<heap[o].state, heap'[o].state>> \in ListedTransitions]_vars

\* C16: a session that has just been created, by the constructor without a
\* state or by connect(), is in state INITIATING, has an id no earlier
\* session has, and has created_at = updated_at = the time of its creation.
C16_NewSessionInitiating ==
    [][Len(heap') > Len(heap) =>
        /\ heap'[Len(heap')].state = "initiating"
        /\ \A o \in DOMAIN heap : heap[o].id # heap'[Len(heap')].id
        /\ heap'[Len(heap')].created_at = heap'[Len(heap')].updated_at
        /\ heap'[Len(heap')].created_at \in now..now']_vars

\* C17: when stop() returns, whether the agent was running or not, every
\* session that was in the store is CLOSED and the store is empty.
C17_StopClosesAll ==
    [][stop =>
        /\ sessions' = NoSessions
        /\ \A o \in Stored : heap'[o].state = "closed"]_vars

\* C18: a change of the state of a session sets its updated_at to the time
\* of the change, and updated_at is never before created_at.
C18_UpdatedAtFollowsState ==
    [][/\ \A o \in DOMAIN heap :
            heap'[o].state # heap[o].state => heap'[o].updated_at \in now..now'
       /\ \A o \in DOMAIN heap' : heap'[o].updated_at >= heap'[o].created_at]_vars

\* C19: a register() that failed has returned a result with success false
\* and an error, and the API key the agent holds is the one it held before
\* the call.
C19_FailedRegisterNoTrace ==
    (regs.pc = "done" /\ ~regs.result.success)
        => /\ regs.result.error # <<>>
           /\ dns_api_key = regs.key_before

\* C32: while the agent is not running its session store is empty: before
\* the first start(), after a stop(), and when a connect() was awaiting its
\* resolution while stop() ran.
C32_IdleStoreEmpty ==
    ~is_running => sessions = NoSessions

\* C25: the flag is false after construction, true after start() and false
\* after stop(); both return None; start() on a running agent and stop() on
\* a stopped one change nothing, and no other call changes the flag.
C25_LifecycleFlag ==
    /\ ~is_running
    /\ [][/\ start => (is_running' /\ aret'.value = "None")
          /\ stop => (~is_running' /\ aret'.value = "None")
          /\ (start /\ is_running) => UNCHANGED <<heap, sessions, dns_api_key, conns, regs>>
          /\ (stop /\ ~is_running) => UNCHANGED <<heap, sessions, dns_api_key, conns, regs>>
          /\ is_running' # is_running => (start \/ stop)]_vars

\* the agent was started, connected, and stopped: the flag is false again
C25_Witness ==
    /\ aret = Answer("stop", "None")
    /\ ~is_running
    /\ Len(heap) >= 1 /\ heap[1].state = "closed"

\* the step is one in which connect() of caller c returns
Connected(c) ==
    /\ conns'[c].pc = "done"
    /\ (calls'[c] # calls[c] \/ conns'[c] # conns[c] \/ Len(heap') # Len(heap))

\* C26: connect() returns a ConnectResult.  After a failed resolution it
\* has success false, no session and an error, and store and sessions are
\* as before.  After a resolution that succeeded it has success true and the
\* one new session, which is in the store under an id no session had, with
\* the name and the public key of the resolved agent as remote identity and
\* the agent's own identity as local one; the other entries are as before.
C26_ConnectResult ==
    [][\A c \in Callers : Connected(c) =>
        IF calls'[c].result.kind = "ok"
        THEN /\ conns'[c].result = ConnectResult(TRUE, <<Len(heap')>>, <<>>)
             /\ Len(heap') = Len(heap) + 1
             /\ SubSeq(heap', 1, Len(heap)) = heap
             /\ \A o \in DOMAIN heap : heap[o].id # heap'[Len(heap')].id
             /\ DOMAIN sessions' = DOMAIN sessions \cup {heap'[Len(heap')].id}
             /\ heap'[Len(heap')].id \notin DOMAIN sessions
             /\ sessions'[heap'[Len(heap')].id] = Len(heap')
             /\ \A k \in DOMAIN sessions : sessions'[k] = sessions[k]
             /\ heap'[Len(heap')].remote_agent
                   = AgentID(calls'[c].result.agent[1].name,
                             calls'[c].result.agent[1].public_key)
             /\ heap'[Len(heap')].local_agent = AgentID(self_name, "pk_self")
        ELSE /\ ~conns'[c].result.success
             /\ conns'[c].result.session = <<>>
             /\ conns'[c].result.error # <<>>
             /\ sessions' = sessions
             /\ heap' = heap]_vars

\* a second connect succeeded: two sessions are in the store
C26_Witness ==
    \E c \in Callers :
        /\ conns[c].pc = "done" /\ conns[c].result.success
        /\ Len(heap) = 2
        /\ DOMAIN sessions = {heap[1].id, heap[2].id}
        /\ heap[2].remote_agent = AgentID(<<97, 98>>, "pk")

\* the store is keyed by the ids of its sessions, no two keys lead to
\* sessions of one id, every stored session is ACTIVE and no stored session
\* is CLOSED
StoreWellFormed ==
    /\ \A k \in DOMAIN sessions : heap[sessions[k]].id = k
    /\ \A k1, k2 \in DOMAIN sessions :
          k1 # k2 => heap[sessions[k1]].id # heap[sessions[k2]].id
    /\ \A k \in DOMAIN sessions : heap[sessions[k]].state = "active"
    /\ \A o \in DOMAIN heap : heap[o].state = "closed" => o \notin Stored

\* C33: under start, stop, connect, send and call_tool every entry of the
\* store is keyed by the id of its session, distinct entries have distinct
\* ids, every stored session is ACTIVE and a CLOSED session is not in the
\* store; a step of send or call_tool changes neither the store nor a
\* session: only connect and stop do.
C33_SessionStore ==
    /\ []StoreWellFormed
    /\ [][/\ (aret' # aret /\ aret'.op \in {"send", "call_tool"})
                => UNCHANGED <<heap, sessions>>
          /\ (heap' # heap \/ sessions' # sessions)
                => (conns' # conns \/ (aret' = Answer("stop", "None") /\ is_running))]_vars

\* a session was closed by stop() and is out of the store, a later one is
\* in the store and ACTIVE, and send() has found it
C33_Witness ==
    /\ Len(heap) = 2
    /\ heap[1].state = "closed" /\ 1 \notin Stored
    /\ DOMAIN sessions = {heap[2].id}
    /\ heap[2].state = "active"
    /\ aret = Answer("send", "True")

----------------------------------------------------------------------------
(* Claims about the validator.                                             *)

\* a lowercase ASCII letter, a digit, a hyphen, or a code point from U+0080
InAlphabet(c) ==
    \/ c \in 97..122
    \/ c \in 48..57
    \/ c = 45
    \/ c >= 128

\* C20: validate_agent_name(s) is true iff the lowercased s is 2 to 50 long,
\* is made of the alphabet only, and has no hyphen at either end; it is
\* false for an s shorter than 2 or longer than 50.
C20_ValidIffWellFormed ==
    probe.pc = "answered" =>
        /\ probe.valid <=>
              /\ Len(Lower(probe.input)) \in 2..50
              /\ \A i \in 1..Len(Lower(probe.input)) : InAlphabet(Lower(probe.input)[i])
              /\ Lower(probe.input)[1] # 45
              /\ Lower(probe.input)[Len(Lower(probe.input))] # 45
        /\ (Len(probe.input) < 2 \/ Len(probe.input) > 50) => ~probe.valid

\* C21: for a name n the validator accepts, parse_agent_uri(to_agent_uri(n))
\* is the lowercase form of n and converting that back gives to_agent_uri(n)
\* again; for a valid URI u, to_agent_uri(parse_agent_uri(u)) is u lowercased.
C21_CanonicalRoundTrip ==
    /\ (probe.pc = "canonical" /\ probe.valid)
          => /\ probe.parsed # None
             /\ probe.parsed = Lower(probe.input)
             /\ probe.again = probe.uri
    /\ (probe.pc = "parsed" /\ probe.valid)
          => probe.again = Lower(probe.input)

\* C22: parse_agent_uri(s) succeeds iff s starts with "agent://" and
\* validate_agent_name accepts what follows, and then returns what follows
\* in lowercase; is_valid_agent_uri(s) iff parse_agent_uri(s) succeeds.
C22_ParseAgreesWithValidate ==
    probe.pc = "parsed" =>
        /\ probe.parsed # None
              <=> /\ StartsWith(probe.input, AgentPrefix)
                  /\ validate_agent_name(SubSeq(probe.input, 9, Len(probe.input)))
        /\ probe.parsed # None
              => probe.parsed = Lower(SubSeq(probe.input, 9, Len(probe.input)))
        /\ probe.valid <=> probe.parsed # None

\* C23: Agent(name) raises ValueError and makes no agent for a name the
\* validator rejects; an agent that was constructed has a valid name, stored
\* in lowercase, and its uri is to_agent_uri of its name and a valid URI.
C23_AgentNameCanonical ==
    /\ probe.pc = "ValueError"
          => ~validate_agent_name(probe.input) /\ self_name = None
    /\ probe.pc = "constructed"
          => /\ validate_agent_name(probe.input)
             /\ self_name = Lower(self_name)
             /\ agent_uri = to_agent_uri(self_name)
             /\ is_valid_agent_uri(agent_uri)

----------------------------------------------------------------------------
(* Claims about protocol frames.                                           *)

\* the field validate_frame requires of a frame of each class
RequiredField(x) ==
    CASE x.cls = "RequestFrame" -> x.method
      [] x.cls = "ResponseFrame" -> x.request_id
      [] x.cls = "EventFrame" -> x.event
      [] x.cls = "ErrorFrame" -> x.request_id

\* C24: validate_frame(x) is true iff x is a frame of one of the four
\* classes, its id is not empty and the field its class requires is not
\* empty; it is false for a value that is no frame; a frame is constructed
\* whatever its fields are.
C24_ValidateFrame ==
    /\ frame.pc = "validated" =>
          (frame.valid <=>
              /\ frame.x.cls \in FrameClasses
              /\ frame.x.id # ""
              /\ RequiredField(frame.x) # "")
    /\ frame.pc = "none" =>
          \A cls \in FrameClasses, type \in MessageType, id \in FrameIds,
             field1 \in FieldValues :
                ENABLED BuildFrame(cls, type, id, field1)

\* an error frame with an id and no request_id was constructed and then
\* rejected
C24_Witness ==
    /\ frame.pc = "validated"
    /\ frame.x.cls = "ErrorFrame"
    /\ frame.x.id # "" /\ frame.x.request_id = ""
    /\ ~frame.valid

====
